---- MODULE Spec2Model ----
(***************************************************************************)
(* A model of storj/stargate:                                              *)
(*   - auth/memauth: the in-memory credential store KV (Put, Get, Delete,  *)
(*     Invalidate, Ping) and the auth.Database wrapper (Put, Get);         *)
(*   - miniogw/multipart.go: the S3 multipart adapter over the storage     *)
(*     network's stream API, and the aggregate ETag computation.           *)
(* Every handler is one action; the handlers' results are kept in the      *)
(* variables `last` (store) and `resp` (adapter).                          *)
(***************************************************************************)
EXTENDS Integers, Sequences, FiniteSets, TLC

(***************************************************************************)
(* Bounds of the model.                                                    *)
(***************************************************************************)
NumKeys == 2
MaxEtagLen == 3
MaxStreams == 1
MaxPartNumber == 2
MaxPagedParts == 5
MaxPending == 2
MaxUploads == 2
NumProcs == 2

(***************************************************************************)
(* Credential store: values.                                               *)
(***************************************************************************)
\* Encryption keys, as small integers standing for [32]byte values.
Keys == 1..NumKeys

\* EncryptionKey.Hash: blake3.Sum256 of the key, a deterministic and
\* collision-resistant digest; modelled as an injective map that is not
\* the identity.
Hash(k) == 7 * k + 3

KeyHashes == {Hash(k) : k \in Keys}

\* Access grants a caller may hand to Database.Put.  Grant 0 is the
\* zero-valued uplink.Access, which uplink refuses to serialize.
Grants == {0, 1, 2}

Reasons == {"reason-A", "reason-B"}

\* Errors: errs classes with their message arguments.
NoErr == [class |-> "nil", reason |-> "", hash |-> 0, wrapped |-> FALSE]
ErrExists == [class |-> "record already exists", reason |-> "", hash |-> 0, wrapped |-> FALSE]
ErrInvalid(reason) == [class |-> "Invalid", reason |-> reason, hash |-> 0, wrapped |-> FALSE]
ErrNotFound(h) == [class |-> "not found", reason |-> "", hash |-> h, wrapped |-> FALSE]
ErrSerialize == [class |-> "serialize", reason |-> "", hash |-> 0, wrapped |-> FALSE]
ErrParse == [class |-> "parse", reason |-> "", hash |-> 0, wrapped |-> FALSE]

\* errs.Wrap keeps the class and message of the wrapped error; nil stays nil.
Wrap(e) == IF e = NoErr THEN NoErr ELSE [e EXCEPT !.wrapped = TRUE]

\* uplink.Access.Serialize: the portable textual form of a grant.
Serialize(g) ==
    IF g = 0 THEN [err |-> ErrSerialize, val |-> <<"", 0>>]
             ELSE [err |-> NoErr, val |-> <<"access", g>>]

\* uplink.ParseAccess: the inverse conversion, failing on any other text.
ParseAccess(s) ==
    IF s[1] = "access" /\ s[2] \in Grants \ {0}
        THEN [err |-> NoErr, access |-> <<s[2]>>]
        ELSE [err |-> ErrParse, access |-> <<>>]

\* auth.Record as Database.Put builds it.
Record(payload) ==
    [SatelliteAddress |-> "TODO", MacaroonHead |-> "TODO",
     EncryptedSecretKey |-> "TODO", EncryptedAccessGrant |-> payload]

\* *auth.Record values handed to KV.Put: <<>> is the nil pointer, <<r>> a
\* pointer to r.  The payload of a record put directly need not parse.
RecordPtrs ==
    {<<>>} \cup {<<Record(Serialize(g).val)>> : g \in Grants \ {0}}
           \cup {<<Record(<<"garbage", 0>>)>>}

\* Go map operations on a function whose domain is the set of present keys.
MapSet(m, k, v) == [x \in DOMAIN m \cup {k} |-> IF x = k THEN v ELSE m[x]]
MapDelete(m, k) == [x \in DOMAIN m \ {k} |-> m[x]]
EmptyMap == [x \in {} |-> 0]

VARIABLES
    entries,      \* KV.entries: map[KeyHash]*Record
    invalid,      \* KV.invalid: map[KeyHash]string
    K,            \* the key hash under observation, any one of KeyHashes
    last,         \* the last call on K (or Ping) and what it returned
    putRec,       \* history: the record of the successful Put on K since its last Delete
    firstReason,  \* history: the reason of the first Invalidate of K since its last Delete
    fresh,        \* history: "deleted" after Delete(K), "reput" after Delete(K); Put(K, _)
    dbGrant,      \* history: the grant of the successful Database.Put on K since its last Delete
    wasInvalid    \* history: whether the last Delete(K) found K invalidated

VARIABLES
    etagParts,    \* the two part ETags handed to multipartUploadETag
    etagOut       \* its results for the list and for the reversed list

VARIABLES
    streams,      \* the network's live uploads: StreamID -> bucket, key and uploaded part indices
    nextStream,   \* the StreamID the network assigns next
    objects,      \* the network's committed objects
    resp,         \* the last adapter request and what it returned
    prevPage      \* history: the page a client's paging loop got before the current one

VARIABLES
    mu,           \* KV.mu: 0 when unlocked, else the caller holding it
    procs         \* each concurrent caller's call and its position in it

authVars == <<entries, invalid, K, last, putRec, firstReason, fresh, dbGrant, wasInvalid>>
etagVars == <<etagParts, etagOut>>
mpVars == <<streams, nextStream, objects, resp, prevPage>>
concVars == <<mu, procs>>
vars == <<authVars, etagVars, mpVars, concVars>>
notAuth == <<etagVars, mpVars, concVars>>
notETag == <<authVars, mpVars, concVars>>
notMp == <<authVars, etagVars, concVars>>
notStore == <<K, last, putRec, firstReason, fresh, dbGrant, wasInvalid, etagVars, mpVars>>

(***************************************************************************)
(* Credential store: the handlers as functions of the two maps.            *)
(***************************************************************************)
\* KV.Put
\* (mutant: the existence check is dropped and the record overwritten)
KVPutOverwrite(e, i, h, r) ==
    [entries |-> MapSet(e, h, r), invalid |-> i, err |-> NoErr]

\* (mutant: an invalidated hash is refused like a present one)
KVPutChecksInvalid(e, i, h, r) ==
    IF h \in DOMAIN e \/ h \in DOMAIN i
        THEN [entries |-> e, invalid |-> i, err |-> ErrExists]
        ELSE [entries |-> MapSet(e, h, r), invalid |-> i, err |-> NoErr]

KVPutResult(e, i, h, r) ==
    IF h \in DOMAIN e
        THEN [entries |-> e, invalid |-> i, err |-> ErrExists]
        ELSE [entries |-> MapSet(e, h, r), invalid |-> i, err |-> NoErr]

\* (mutant: the live record is read before the invalidation map)
KVGetEntriesFirst(e, i, h) ==
    IF h \in DOMAIN e THEN [record |-> e[h], err |-> NoErr]
    ELSE IF h \in DOMAIN i THEN [record |-> <<>>, err |-> ErrInvalid(i[h])]
    ELSE [record |-> <<>>, err |-> NoErr]

\* KV.Get: a missing key reads as the nil pointer.
KVGetResult(e, i, h) ==
    IF h \in DOMAIN i
        THEN [record |-> <<>>, err |-> ErrInvalid(i[h])]
        ELSE [record |-> IF h \in DOMAIN e THEN e[h] ELSE <<>>, err |-> NoErr]

\* (mutant: only the live record is removed)
KVDeleteEntriesOnly(e, i, h) ==
    [entries |-> MapDelete(e, h), invalid |-> i, err |-> NoErr]

\* KV.Delete
KVDeleteResult(e, i, h) ==
    [entries |-> MapDelete(e, h), invalid |-> MapDelete(i, h), err |-> NoErr]

\* (mutant: the last reason wins)
KVInvalidateOverwrite(e, i, h, reason) ==
    [entries |-> e, invalid |-> MapSet(i, h, reason), err |-> NoErr]

\* (mutant: invalidating removes the live record)
KVInvalidateRemoves(e, i, h, reason) ==
    [entries |-> MapDelete(e, h),
     invalid |-> IF h \notin DOMAIN i THEN MapSet(i, h, reason) ELSE i,
     err |-> NoErr]

\* KV.Invalidate
KVInvalidateResult(e, i, h, reason) ==
    [entries |-> e,
     invalid |-> IF h \notin DOMAIN i THEN MapSet(i, h, reason) ELSE i,
     err |-> NoErr]

\* KV.Ping
KVPingResult(e, i) == [entries |-> e, invalid |-> i, err |-> NoErr]

\* (mutant: the grant field is left a placeholder like its neighbours)
DatabasePutPlaceholder(e, i, key, g) ==
    LET ser == Serialize(g) IN
    IF ser.err # NoErr
        THEN [entries |-> e, invalid |-> i, err |-> Wrap(ser.err), record |-> <<>>]
        ELSE LET record == <<Record(<<"TODO", 0>>)>>
                 put == KVPutResult(e, i, Hash(key), record)
             IN  [entries |-> put.entries, invalid |-> put.invalid,
                  err |-> Wrap(put.err), record |-> record]

\* Database.Put
DatabasePutResult(e, i, key, g) ==
    LET ser == Serialize(g) IN
    IF ser.err # NoErr
        THEN [entries |-> e, invalid |-> i, err |-> Wrap(ser.err), record |-> <<>>]
        ELSE LET record == <<Record(ser.val)>>
                 put == KVPutResult(e, i, Hash(key), record)
             IN  [entries |-> put.entries, invalid |-> put.invalid,
                  err |-> Wrap(put.err), record |-> record]

\* Database.Get; `parsed` tells whether uplink.ParseAccess was reached.
DatabaseGetResult(e, i, key) ==
    LET got == KVGetResult(e, i, Hash(key)) IN
    IF got.err # NoErr
        THEN [access |-> <<>>, secretKey |-> <<>>, err |-> Wrap(got.err), parsed |-> FALSE]
    ELSE IF got.record = <<>>
        THEN [access |-> <<>>, secretKey |-> <<>>, err |-> ErrNotFound(Hash(key)), parsed |-> FALSE]
    ELSE LET p == ParseAccess(got.record[1].EncryptedAccessGrant) IN
         IF p.err # NoErr
             THEN [access |-> <<>>, secretKey |-> <<>>, err |-> Wrap(p.err), parsed |-> TRUE]
             ELSE [access |-> p.access, secretKey |-> <<got.record[1].EncryptedSecretKey>>,
                   err |-> NoErr, parsed |-> TRUE]

(***************************************************************************)
(* Credential store: the calls.                                            *)
(***************************************************************************)
Call(op, h, err) ==
    [op |-> op, h |-> h, err |-> err, arg |-> <<>>, reason |-> "", grant |-> 0,
     record |-> <<>>, access |-> <<>>, parsed |-> FALSE]

\* A call on another hash than K is recorded without its details.
Observe(h, call) == IF h = K THEN call ELSE Call("other", 0, NoErr)

\* memauth.New: both maps empty.
AuthInit ==
    /\ entries = EmptyMap
    /\ invalid = EmptyMap
    /\ K \in KeyHashes
    /\ last = Call("New", 0, NoErr)
    /\ putRec = <<>>
    /\ firstReason = <<>>
    /\ fresh = "none"
    /\ dbGrant = <<>>
    /\ wasInvalid = FALSE

KVPut ==
    \E h \in KeyHashes, r \in RecordPtrs :
        LET res == KVPutResult(entries, invalid, h, r)
            stored == h = K /\ res.err = NoErr
        IN
        /\ entries' = res.entries
        /\ invalid' = res.invalid
        /\ last' = Observe(h, [Call("KV.Put", h, res.err) EXCEPT !.arg = <<r>>])
        /\ putRec' = IF stored THEN <<r>> ELSE putRec
        /\ fresh' = IF stored /\ fresh = "deleted" THEN "reput" ELSE fresh
        /\ UNCHANGED <<K, firstReason, dbGrant, wasInvalid>>
        /\ UNCHANGED notAuth

KVGet ==
    \E h \in KeyHashes :
        LET res == KVGetResult(entries, invalid, h) IN
        /\ last' = Observe(h, [Call("KV.Get", h, res.err) EXCEPT !.record = res.record])
        /\ UNCHANGED <<entries, invalid, K, putRec, firstReason, fresh, dbGrant, wasInvalid>>
        /\ UNCHANGED notAuth

KVDelete ==
    \E h \in KeyHashes :
        LET res == KVDeleteResult(entries, invalid, h) IN
        /\ entries' = res.entries
        /\ invalid' = res.invalid
        /\ last' = Observe(h, Call("KV.Delete", h, res.err))
        /\ putRec' = IF h = K THEN <<>> ELSE putRec
        /\ firstReason' = IF h = K THEN <<>> ELSE firstReason
        /\ fresh' = IF h = K THEN "deleted" ELSE fresh
        /\ dbGrant' = IF h = K THEN <<>> ELSE dbGrant
        /\ wasInvalid' = IF h = K THEN h \in DOMAIN invalid ELSE wasInvalid
        /\ UNCHANGED K
        /\ UNCHANGED notAuth

KVInvalidate ==
    \E h \in KeyHashes, reason \in Reasons :
        LET res == KVInvalidateResult(entries, invalid, h, reason) IN
        /\ entries' = res.entries
        /\ invalid' = res.invalid
        /\ last' = Observe(h, [Call("KV.Invalidate", h, res.err) EXCEPT !.reason = reason])
        /\ firstReason' = IF h = K /\ firstReason = <<>> THEN <<reason>> ELSE firstReason
        /\ fresh' = IF h = K THEN "none" ELSE fresh
        /\ wasInvalid' = IF h = K THEN FALSE ELSE wasInvalid
        /\ UNCHANGED <<K, putRec, dbGrant>>
        /\ UNCHANGED notAuth

KVPing ==
    LET res == KVPingResult(entries, invalid) IN
    /\ entries' = res.entries
    /\ invalid' = res.invalid
    /\ last' = Call("KV.Ping", 0, res.err)
    /\ UNCHANGED <<K, putRec, firstReason, fresh, dbGrant, wasInvalid>>
    /\ UNCHANGED notAuth

DatabasePut ==
    \E key \in Keys, g \in Grants :
        LET res == DatabasePutResult(entries, invalid, key, g)
            h == Hash(key)
            stored == h = K /\ res.err = NoErr
        IN
        /\ entries' = res.entries
        /\ invalid' = res.invalid
        /\ last' = Observe(h, [Call("Database.Put", h, res.err) EXCEPT
                                   !.grant = g, !.arg = <<res.record>>])
        /\ putRec' = IF stored THEN <<res.record>> ELSE putRec
        /\ dbGrant' = IF stored THEN <<g>> ELSE dbGrant
        /\ fresh' = IF stored /\ fresh = "deleted" THEN "reput" ELSE fresh
        /\ UNCHANGED <<K, firstReason, wasInvalid>>
        /\ UNCHANGED notAuth

DatabaseGet ==
    \E key \in Keys :
        LET res == DatabaseGetResult(entries, invalid, key) IN
        /\ last' = Observe(Hash(key), [Call("Database.Get", Hash(key), res.err) EXCEPT
                                          !.access = res.access, !.parsed = res.parsed])
        /\ UNCHANGED <<entries, invalid, K, putRec, firstReason, fresh, dbGrant, wasInvalid>>
        /\ UNCHANGED notAuth

(***************************************************************************)
(* Aggregate ETag (miniogw/multipart.go).  A string is a sequence of       *)
(* one-character strings, a byte an integer.                               *)
(***************************************************************************)
Quote == "\""
Dash == "-"
HexDigits == {"a", "b"}
Chars == {Quote, Dash} \cup HexDigits

Strings(n) == UNION {[1..m -> Chars] : m \in 0..n}

\* []byte(s): the character codes.
ByteOf(c) ==
    CASE c = Quote -> 34 [] c = Dash -> 45 [] c = "/" -> 47 [] c = "a" -> 97
      [] c = "b" -> 98 [] c = "d" -> 100 [] c = "o" -> 111 [] c = "x" -> 120

Bytes(s) == [i \in 1..Len(s) |-> ByteOf(s[i])]

HexValue(c) == CASE c = "a" -> 10 [] c = "b" -> 11

\* strings.Trim(s, `"`): every leading and trailing quote is removed.
RECURSIVE TrimLeft(_)
TrimLeft(s) == IF s # <<>> /\ Head(s) = Quote THEN TrimLeft(Tail(s)) ELSE s

RECURSIVE TrimRight(_)
TrimRight(s) ==
    IF s # <<>> /\ s[Len(s)] = Quote THEN TrimRight(SubSeq(s, 1, Len(s) - 1)) ELSE s

Trim(s) == TrimRight(TrimLeft(s))

\* strings.IndexByte(s, '-'), 0-based; -1 when there is none.
IndexDash(s) ==
    IF \E i \in 1..Len(s) : s[i] = Dash
        THEN (CHOOSE i \in 1..Len(s) : s[i] = Dash /\ \A j \in 1..(i - 1) : s[j] # Dash) - 1
        ELSE -1

\* canonicalEtag
canonicalEtag(etag) ==
    LET t == Trim(etag)
        p == IndexDash(t)
    IN  IF p >= 0 THEN SubSeq(t, 1, p) ELSE t

\* hex.DecodeString: fails on an odd length or on a character that is no hex digit.
HexDecode(s) ==
    IF Len(s) % 2 = 0 /\ \A i \in 1..Len(s) : s[i] \in HexDigits
        THEN [err |-> FALSE,
              bytes |-> [i \in 1..(Len(s) \div 2) |->
                            16 * HexValue(s[2 * i - 1]) + HexValue(s[2 * i])]]
        ELSE [err |-> TRUE, bytes |-> <<>>]

\* What one part appends to `hashes` in multipartUploadETag's loop.
Contribution(etag) ==
    LET d == HexDecode(canonicalEtag(etag)) IN
    IF d.err THEN Bytes(etag) ELSE d.bytes

RECURSIVE Hashes(_)
Hashes(parts) ==
    IF parts = <<>> THEN <<>> ELSE Contribution(Head(parts)) \o Hashes(Tail(parts))

\* hex.EncodeToString(md5.Sum(b)): the digest is taken as injective, so it
\* is represented by the bytes it was computed from.
Md5Hex(b) == <<"md5", b>>

\* (mutant: the contributions are put in ascending order before hashing)
SeqLess(a, b) ==
    \E i \in 1..Len(b) :
        /\ \A k \in 1..(i - 1) : k <= Len(a) /\ a[k] = b[k]
        /\ (i > Len(a) \/ a[i] < b[i])

RECURSIVE SortedInsert(_, _)
SortedInsert(c, cs) ==
    IF cs = <<>> THEN <<c>>
    ELSE IF SeqLess(c, Head(cs)) THEN <<c>> \o cs
    ELSE <<Head(cs)>> \o SortedInsert(c, Tail(cs))

RECURSIVE SortedContributions(_)
SortedContributions(parts) ==
    IF parts = <<>> THEN <<>>
    ELSE SortedInsert(Contribution(Head(parts)), SortedContributions(Tail(parts)))

RECURSIVE Flatten(_)
Flatten(cs) == IF cs = <<>> THEN <<>> ELSE Head(cs) \o Flatten(Tail(cs))

multipartUploadETagSorted(parts) ==
    <<Md5Hex(Flatten(SortedContributions(parts))), "-", Len(parts)>>

\* multipartUploadETag: <hex digest>-<number of parts>; its error is always nil.
multipartUploadETag(parts) == <<Md5Hex(Hashes(parts)), "-", Len(parts)>>

NoETag == <<Md5Hex(<<>>), "", 0>>

ETagInit ==
    /\ etagParts \in Strings(MaxEtagLen) \X Strings(MaxEtagLen)
    /\ etagOut = [done |-> FALSE, fwd |-> NoETag, rev |-> NoETag]

ETagIdle ==
    /\ etagParts = <<<<>>, <<>>>>
    /\ etagOut = [done |-> FALSE, fwd |-> NoETag, rev |-> NoETag]

\* Two calls: on [p1, p2] and on [p2, p1].
ComputeETags ==
    /\ etagOut' = [done |-> TRUE,
                   fwd |-> multipartUploadETag(<<etagParts[1], etagParts[2]>>),
                   rev |-> multipartUploadETag(<<etagParts[2], etagParts[1]>>)]
    /\ UNCHANGED etagParts
    /\ UNCHANGED notETag

(***************************************************************************)
(* Multipart adapter (miniogw/multipart.go): values.                       *)
(***************************************************************************)
Buckets == {"b"}
ObjectKeys == {<<"o">>}

\* uploadIDs a request may carry; MaxStreams + 1 is never assigned.
UploadIDs == 1..(MaxStreams + 1)
PartNumbers == 1..MaxPartNumber

\* The length of the data of a part.
DataSizes == {5}

\* An adapter error is the list of the errors errs.Combine has put
\* together: <<>> is nil, <<e>> is e itself.
MErr(kind, bucket, object, uploadID) ==
    [kind |-> kind, bucket |-> bucket, object |-> object, uploadID |-> uploadID,
     delimiter |-> ""]

ErrOpen == MErr("OpenProject", "", <<>>, 0)
ErrClose == MErr("Close", "", <<>>, 0)
InvalidUploadID(bucket, object, uploadID) == MErr("InvalidUploadID", bucket, object, uploadID)

BucketNameInvalid == MErr("BucketNameInvalid", "", <<>>, 0)
BucketNotFound(bucket) == MErr("BucketNotFound", bucket, <<>>, 0)
UnsupportedDelimiter(delimiter) ==
    [MErr("UnsupportedDelimiter", "", <<>>, 0) EXCEPT !.delimiter = delimiter]

\* (mutant: the second error is dropped when there is a first)
CombineFirst(e1, e2) == IF e1 # <<>> THEN e1 ELSE e2

Combine(e1, e2) == e1 \o e2

\* The network's errors.
NetOk == "nil"
ErrStreamIDInvalid == "ErrStreamIDInvalid"
ErrNetwork == "network failure"

\* convertError (gateway.go): every other failure becomes a storage error.
convertError(err, bucket, object) == MErr("StorageError", "", <<>>, 0)

\* (mutant: the uploadID is left out, as in NewMultipartUpload's call)
convertMultipartErrorNoID(err, bucket, object, uploadID) ==
    IF err = ErrStreamIDInvalid
        THEN InvalidUploadID(bucket, object, 0)
        ELSE convertError(err, bucket, object)

\* convertMultipartError
convertMultipartError(err, bucket, object, uploadID) ==
    IF err = ErrStreamIDInvalid
        THEN InvalidUploadID(bucket, object, uploadID)
        ELSE convertError(err, bucket, object)

\* A metadata value that is not an aggregate ETag.
StringValue(v) == <<Md5Hex(<<>>), v, 0>>

NoMetadata == [x \in {} |-> NoETag]

\* opts.UserDefined of a CompleteMultipartUpload request: nil, or a map
\* that already has an "s3:etag" entry.
UserDefinedMaps ==
    {NoMetadata, ("s3:etag" :> StringValue("stale")) @@ ("k" :> StringValue("v"))}

CompletePart(n, etag) == [PartNumber |-> n, ETag |-> etag]

\* uploadedParts of a CompleteMultipartUpload request.
PartLists ==
    {<<>>,
     <<CompletePart(1, <<"a", "b">>)>>,
     <<CompletePart(1, <<"a", "b">>), CompletePart(2, <<Quote, "b", "a", Quote>>)>>,
     <<CompletePart(1, <<"b", "a">>), CompletePart(2, <<"a", "b">>)>>}

ETagsOf(parts) == [i \in 1..Len(parts) |-> parts[i].ETag]

NoCalls == <<>>
NetCall(fn, uploadID, index, limit, meta) ==
    [fn |-> fn, uploadID |-> uploadID, index |-> index, limit |-> limit, meta |-> meta]

\* data.MD5CurrentHexString() of a part's data, which its length identifies.
MD5CurrentHexString(size) == <<Md5Hex(<<size>>), "", 0>>

NoPartInfo == [PartNumber |-> 0, Size |-> 0, ETag |-> NoETag]
NoObjectInfo == [Bucket |-> "", Name |-> <<>>, ETag |-> NoETag]
NoListParts ==
    [Bucket |-> "", Object |-> <<>>, UploadID |-> 0, PartNumberMarker |-> 0,
     NextPartNumberMarker |-> 0, MaxParts |-> 0, IsTruncated |-> FALSE, Parts |-> <<>>]
NoMultipartInfo == [Bucket |-> "", Object |-> <<>>, UploadID |-> 0]
NoListMultiparts ==
    [KeyMarker |-> <<>>, UploadIDMarker |-> 0, NextKeyMarker |-> <<>>, MaxUploads |-> 0,
     IsTruncated |-> FALSE, Uploads |-> <<>>, Prefix |-> <<>>, Delimiter |-> "",
     CommonPrefixes |-> <<>>]
ListArgs(prefix, keyMarker, delimiter, maxUploads) ==
    [prefix |-> prefix, keyMarker |-> keyMarker, delimiter |-> delimiter,
     maxUploads |-> maxUploads]

\* What can go wrong in a request: opening the project, the network call,
\* closing the project.  When the project does not open nothing else runs.
Fault(open, net, close) == [open |-> open, net |-> net, close |-> close]
NoFault == Fault(FALSE, FALSE, FALSE)
Faults ==
    {NoFault, Fault(TRUE, FALSE, FALSE), Fault(FALSE, TRUE, FALSE),
     Fault(FALSE, FALSE, TRUE), Fault(FALSE, TRUE, TRUE)}

\* A request with the zero values of every result; `fault` and `given` are
\* history: what went wrong during it and the opts.UserDefined it was handed;
\* `number` is the partID or partNumberMarker it was handed.
Request(op, bucket, object, uploadID) ==
    [op |-> op, bucket |-> bucket, object |-> object, uploadID |-> uploadID,
     err |-> <<>>, opened |-> FALSE, closed |-> 0, netCalls |-> NoCalls,
     outID |-> 0, part |-> NoPartInfo, objInfo |-> NoObjectInfo, list |-> NoListParts,
     info |-> NoMultipartInfo, userDefined |-> NoMetadata, uploadedParts |-> <<>>,
     uploads |-> NoListMultiparts, listArgs |-> ListArgs(<<>>, <<>>, "", 0),
     fault |-> NoFault, given |-> NoMetadata, number |-> 0]

Network(s, n, o) == [streams |-> s, nextStream |-> n, objects |-> o]

(***************************************************************************)
(* The storage network's stream API (storj.io/uplink/private/multipart).   *)
(***************************************************************************)
\* multipart.NewMultipartUpload: a new pending stream with a fresh StreamID.
NetNewMultipartUpload(net, bucket, key, fail) ==
    IF fail THEN [net |-> net, err |-> ErrNetwork, StreamID |-> 0]
    ELSE [net |-> Network(MapSet(net.streams, net.nextStream,
                                 [bucket |-> bucket, key |-> key, parts |-> [x \in {} |-> 0]]),
                          net.nextStream + 1, net.objects),
          err |-> NetOk, StreamID |-> net.nextStream]

\* multipart.PutObjectPart: stores the part at the 0-based index.
NetPutObjectPart(net, uploadID, index, size, fail) ==
    IF fail THEN [net |-> net, err |-> ErrNetwork, Size |-> 0]
    ELSE IF uploadID \notin DOMAIN net.streams
        THEN [net |-> net, err |-> ErrStreamIDInvalid, Size |-> 0]
    ELSE [net |-> [net EXCEPT !.streams[uploadID].parts = MapSet(@, index, size)],
          err |-> NetOk, Size |-> size]

\* multipart.AbortMultipartUpload
NetAbortMultipartUpload(net, uploadID, fail) ==
    IF fail THEN [net |-> net, err |-> ErrNetwork]
    ELSE IF uploadID \notin DOMAIN net.streams
        THEN [net |-> net, err |-> ErrStreamIDInvalid]
    ELSE [net |-> [net EXCEPT !.streams = MapDelete(@, uploadID)], err |-> NetOk]

\* multipart.CompleteMultipartUpload: the stream becomes an object.
NetCompleteMultipartUpload(net, uploadID, meta, fail) ==
    IF fail THEN [net |-> net, err |-> ErrNetwork, Key |-> <<>>]
    ELSE IF uploadID \notin DOMAIN net.streams
        THEN [net |-> net, err |-> ErrStreamIDInvalid, Key |-> <<>>]
    ELSE [net |-> [net EXCEPT !.streams = MapDelete(@, uploadID),
                              !.objects = @ \cup {[bucket |-> net.streams[uploadID].bucket,
                                                   key |-> net.streams[uploadID].key]}],
          err |-> NetOk, Key |-> net.streams[uploadID].key]

\* The sequence of the elements of a set of integers, ascending or descending.
RECURSIVE Ascending(_)
Ascending(S) ==
    IF S = {} THEN <<>>
    ELSE LET m == CHOOSE x \in S : \A y \in S : x <= y IN <<m>> \o Ascending(S \ {m})

Reverse(q) == [i \in 1..Len(q) |-> q[Len(q) + 1 - i]]

\* multipart.ListObjectParts: the parts after the 0-based cursor, at most
\* `limit` of them when limit > 0, in an order the adapter does not rely on.
NetListObjectParts(net, uploadID, cursor, limit, descending, fail) ==
    IF fail THEN [err |-> ErrNetwork, Items |-> <<>>, More |-> FALSE]
    ELSE IF uploadID \notin DOMAIN net.streams
        THEN [err |-> ErrStreamIDInvalid, Items |-> <<>>, More |-> FALSE]
    ELSE LET parts == net.streams[uploadID].parts
             after == Ascending({i \in DOMAIN parts : i > cursor})
             n == IF limit > 0 /\ limit < Len(after) THEN limit ELSE Len(after)
             page == [i \in 1..n |-> [PartNumber |-> after[i], Size |-> parts[after[i]]]]
         IN  [err |-> NetOk,
              Items |-> IF descending THEN Reverse(page) ELSE page,
              More |-> n < Len(after)]

(***************************************************************************)
(* Multipart adapter: the handlers.  Each takes the network's state, the   *)
(* request, and whether opening the project, the network call and closing  *)
(* the project fail; each gives the network's new state and the response.  *)
(***************************************************************************)
Outcome(net, r) == [net |-> net, resp |-> r]

\* `return ..., err` when openProjectMultipart fails.
OpenFailed(net, req) == Outcome(net, [req EXCEPT !.err = <<ErrOpen>>])

\* (mutant: the project is never closed)
ClosingNever(out, closeFail) == [out EXCEPT !.resp.opened = TRUE]

\* The deferred  err = errs.Combine(err, project.Close()).
Closing(out, closeFail) ==
    [out EXCEPT !.resp.opened = TRUE,
                !.resp.closed = @ + 1,
                !.resp.err = Combine(@, IF closeFail THEN <<ErrClose>> ELSE <<>>)]

\* gatewayLayer.NewMultipartUpload
NewMultipartUploadResult(net, bucket, object, openFail, netFail, closeFail) ==
    LET req == Request("NewMultipartUpload", bucket, object, 0) IN
    IF openFail THEN OpenFailed(net, req)
    ELSE LET n == NetNewMultipartUpload(net, bucket, object, netFail)
             called == [req EXCEPT !.netCalls =
                            <<NetCall("NewMultipartUpload", 0, 0, 0, NoMetadata)>>]
         IN  Closing(
               IF n.err # NetOk
                 THEN Outcome(n.net, [called EXCEPT
                          !.err = <<convertMultipartError(n.err, bucket, object, 0)>>])
                 ELSE Outcome(n.net, [called EXCEPT !.outID = n.StreamID]),
               closeFail)

\* gatewayLayer.GetMultipartInfo
GetMultipartInfoResult(net, bucket, object, uploadID) ==
    Outcome(net, [Request("GetMultipartInfo", bucket, object, uploadID) EXCEPT
                     !.info = [Bucket |-> bucket, Object |-> object, UploadID |-> uploadID]])

\* (mutant: the part is stored at index partID)
PutObjectPartSameIndex(net, bucket, object, uploadID, partID, size, openFail, netFail, closeFail) ==
    LET req == [Request("PutObjectPart", bucket, object, uploadID) EXCEPT !.number = partID] IN
    IF openFail THEN OpenFailed(net, req)
    ELSE LET n == NetPutObjectPart(net, uploadID, partID, size, netFail)
             called == [req EXCEPT !.netCalls =
                            <<NetCall("PutObjectPart", uploadID, partID, 0, NoMetadata)>>]
         IN  Closing(
               IF n.err # NetOk
                 THEN Outcome(n.net, [called EXCEPT
                          !.err = <<convertMultipartError(n.err, bucket, object, uploadID)>>])
                 ELSE Outcome(n.net, [called EXCEPT
                          !.part = [PartNumber |-> partID, Size |-> n.Size,
                                    ETag |-> MD5CurrentHexString(size)]]),
               closeFail)

\* gatewayLayer.PutObjectPart; the part's ETag is the MD5 of the data read.
PutObjectPartResult(net, bucket, object, uploadID, partID, size, openFail, netFail, closeFail) ==
    LET req == [Request("PutObjectPart", bucket, object, uploadID) EXCEPT !.number = partID] IN
    IF openFail THEN OpenFailed(net, req)
    ELSE LET n == NetPutObjectPart(net, uploadID, partID - 1, size, netFail)
             called == [req EXCEPT !.netCalls =
                            <<NetCall("PutObjectPart", uploadID, partID - 1, 0, NoMetadata)>>]
         IN  Closing(
               IF n.err # NetOk
                 THEN Outcome(n.net, [called EXCEPT
                          !.err = <<convertMultipartError(n.err, bucket, object, uploadID)>>])
                 ELSE Outcome(n.net, [called EXCEPT
                          !.part = [PartNumber |-> partID, Size |-> n.Size,
                                    ETag |-> MD5CurrentHexString(size)]]),
               closeFail)

\* gatewayLayer.AbortMultipartUpload
AbortMultipartUploadResult(net, bucket, object, uploadID, openFail, netFail, closeFail) ==
    LET req == Request("AbortMultipartUpload", bucket, object, uploadID) IN
    IF openFail THEN OpenFailed(net, req)
    ELSE LET n == NetAbortMultipartUpload(net, uploadID, netFail)
             called == [req EXCEPT !.netCalls =
                            <<NetCall("AbortMultipartUpload", uploadID, 0, 0, NoMetadata)>>]
         IN  Closing(
               IF n.err # NetOk
                 THEN Outcome(n.net, [called EXCEPT
                          !.err = <<convertMultipartError(n.err, bucket, object, uploadID)>>])
                 ELSE Outcome(n.net, called),
               closeFail)

\* uplink.CustomMetadata.Clone: a new map with the same entries.
Clone(meta) == [k \in DOMAIN meta |-> meta[k]]

\* minioObjectInfo (gateway.go)
minioObjectInfo(bucket, etag, key) == [Bucket |-> bucket, Name |-> key, ETag |-> etag]

\* (mutant: the ETag is written into the caller's map, which is also sent)
CompleteMultipartUploadNoClone(net, bucket, object, uploadID, uploadedParts, userDefined, openFail, netFail, closeFail) ==
    LET req == [Request("CompleteMultipartUpload", bucket, object, uploadID) EXCEPT
                    !.userDefined = userDefined, !.uploadedParts = uploadedParts]
    IN
    IF openFail THEN OpenFailed(net, req)
    ELSE LET etag == multipartUploadETag(ETagsOf(uploadedParts))
             metadata == MapSet(userDefined, "s3:etag", etag)
             n == NetCompleteMultipartUpload(net, uploadID, metadata, netFail)
             called == [req EXCEPT
                          !.userDefined = metadata,
                          !.netCalls = <<NetCall("CompleteMultipartUpload", uploadID, 0, 0,
                                                 metadata)>>]
         IN  Closing(
               IF n.err # NetOk
                 THEN Outcome(n.net, [called EXCEPT
                          !.err = <<convertMultipartError(n.err, bucket, object, uploadID)>>])
                 ELSE Outcome(n.net, [called EXCEPT
                          !.objInfo = minioObjectInfo(bucket, etag, n.Key)]),
               closeFail)

\* gatewayLayer.CompleteMultipartUpload; `userDefined` in the response is
\* the caller's map as the call leaves it.
CompleteMultipartUploadResult(net, bucket, object, uploadID, uploadedParts, userDefined, openFail, netFail, closeFail) ==
    LET req == [Request("CompleteMultipartUpload", bucket, object, uploadID) EXCEPT
                    !.userDefined = userDefined, !.uploadedParts = uploadedParts]
    IN
    IF openFail THEN OpenFailed(net, req)
    ELSE LET etag == multipartUploadETag(ETagsOf(uploadedParts))
             metadata == MapSet(Clone(userDefined), "s3:etag", etag)
             n == NetCompleteMultipartUpload(net, uploadID, metadata, netFail)
             called == [req EXCEPT !.netCalls =
                            <<NetCall("CompleteMultipartUpload", uploadID, 0, 0, metadata)>>]
         IN  Closing(
               IF n.err # NetOk
                 THEN Outcome(n.net, [called EXCEPT
                          !.err = <<convertMultipartError(n.err, bucket, object, uploadID)>>])
                 ELSE Outcome(n.net, [called EXCEPT
                          !.objInfo = minioObjectInfo(bucket, etag, n.Key)]),
               closeFail)

\* sort.Slice(parts, by PartNumber), as an insertion sort.
RECURSIVE InsertPart(_, _)
InsertPart(p, q) ==
    IF q = <<>> THEN <<p>>
    ELSE IF p.PartNumber < Head(q).PartNumber THEN <<p>> \o q
    ELSE <<Head(q)>> \o InsertPart(p, Tail(q))

RECURSIVE SortParts(_)
SortParts(q) == IF q = <<>> THEN <<>> ELSE InsertPart(Head(q), SortParts(Tail(q)))

\* gatewayLayer.ListObjectParts
ListObjectPartsResult(net, bucket, object, uploadID, partNumberMarker, maxParts, descending, openFail, netFail, closeFail) ==
    LET req == [Request("ListObjectParts", bucket, object, uploadID) EXCEPT
                    !.number = partNumberMarker]
    IN
    IF openFail THEN OpenFailed(net, req)
    ELSE LET l == NetListObjectParts(net, uploadID, partNumberMarker - 1, maxParts,
                                     descending, netFail)
             called == [req EXCEPT !.netCalls =
                            <<NetCall("ListObjectParts", uploadID, partNumberMarker - 1,
                                      maxParts, NoMetadata)>>]
             parts == [i \in 1..Len(l.Items) |->
                          [PartNumber |-> l.Items[i].PartNumber + 1, Size |-> l.Items[i].Size,
                           ActualSize |-> l.Items[i].Size, ETag |-> ""]]
         IN  Closing(
               IF l.err # NetOk
                 THEN Outcome(net, [called EXCEPT
                          !.err = <<convertMultipartError(l.err, bucket, object, uploadID)>>])
                 ELSE Outcome(net, [called EXCEPT !.list =
                          [Bucket |-> bucket, Object |-> object, UploadID |-> uploadID,
                           PartNumberMarker |-> partNumberMarker,
                           NextPartNumberMarker |-> partNumberMarker,
                           MaxParts |-> maxParts, IsTruncated |-> l.More,
                           Parts |-> SortParts(parts)]]),
               closeFail)

(***************************************************************************)
(* Multipart adapter: the requests.                                        *)
(***************************************************************************)
\* `seen` and `start` are for a client paging through the pending uploads:
\* the items the earlier pages returned, and the keyMarker it began with.
NoPage == [valid |-> FALSE, list |-> NoListParts, seen |-> {}, start |-> <<>>]

MpInit ==
    /\ streams = [x \in {} |-> 0]
    /\ nextStream = 1
    /\ objects = {}
    /\ resp = Request("none", "", <<>>, 0)
    /\ prevPage = NoPage

Net == Network(streams, nextStream, objects)

Apply(out, f, userDefined) ==
    /\ streams' = out.net.streams
    /\ nextStream' = out.net.nextStream
    /\ objects' = out.net.objects
    /\ resp' = [out.resp EXCEPT !.fault = f, !.given = userDefined]
    /\ prevPage' = NoPage
    /\ UNCHANGED notMp

\* The (uploadedParts, opts.UserDefined) pairs of the completion requests.
CompleteRequests ==
    {<<p, m>> \in PartLists \X UserDefinedMaps : (Len(p) = 1) = (m = NoMetadata)}

NewMultipartUpload ==
    /\ nextStream <= MaxStreams
    /\ \E bucket \in Buckets, object \in ObjectKeys, f \in Faults :
          Apply(NewMultipartUploadResult(Net, bucket, object, f.open, f.net, f.close), f, NoMetadata)

GetMultipartInfo ==
    \E bucket \in Buckets, object \in ObjectKeys, uploadID \in UploadIDs :
        Apply(GetMultipartInfoResult(Net, bucket, object, uploadID), NoFault, NoMetadata)

PutObjectPart ==
    \E bucket \in Buckets, object \in ObjectKeys, uploadID \in UploadIDs,
       partID \in PartNumbers, size \in DataSizes, f \in Faults :
        Apply(PutObjectPartResult(Net, bucket, object, uploadID, partID, size,
                                  f.open, f.net, f.close), f, NoMetadata)

AbortMultipartUpload ==
    \E bucket \in Buckets, object \in ObjectKeys, uploadID \in UploadIDs, f \in Faults :
        Apply(AbortMultipartUploadResult(Net, bucket, object, uploadID,
                                         f.open, f.net, f.close), f, NoMetadata)

CompleteMultipartUpload ==
    \E bucket \in Buckets, object \in ObjectKeys, uploadID \in UploadIDs,
       c \in CompleteRequests, f \in Faults :
        Apply(CompleteMultipartUploadResult(Net, bucket, object, uploadID, c[1], c[2],
                                            f.open, f.net, f.close), f, c[2])

ListObjectParts ==
    \E bucket \in Buckets, object \in ObjectKeys, uploadID \in UploadIDs,
       partNumberMarker \in {0, 1}, maxParts \in {0, MaxPartNumber - 1},
       descending \in BOOLEAN, f \in Faults :
        Apply(ListObjectPartsResult(Net, bucket, object, uploadID, partNumberMarker, maxParts,
                                    descending, f.open, f.net, f.close), f, NoMetadata)

(***************************************************************************)
(* A client paging through the parts of one upload.                        *)
(***************************************************************************)
PagedUpload == 1
PagedPartSize == CHOOSE d \in DataSizes : TRUE

\* The upload holds any of the parts 1..MaxPagedParts (indices from 0).
PagingInit ==
    /\ streams \in {(PagedUpload :> [bucket |-> "b", key |-> <<"o">>,
                                     parts |-> [i \in S |-> PagedPartSize]]) :
                       S \in SUBSET (0..(MaxPagedParts - 1))}
    /\ nextStream = PagedUpload + 1
    /\ objects = {}
    /\ resp = Request("none", "", <<>>, 0)
    /\ prevPage = NoPage

\* A ListObjectParts request with a marker of the client's choice.
ListPage ==
    \E partNumberMarker \in 0..MaxPagedParts, maxParts \in 1..MaxPagedParts,
       descending \in BOOLEAN :
        /\ resp' = ListObjectPartsResult(Net, "b", <<"o">>, PagedUpload, partNumberMarker,
                                         maxParts, descending, FALSE, FALSE, FALSE).resp
        /\ prevPage' = NoPage
        /\ UNCHANGED <<streams, nextStream, objects, notMp>>

\* After a truncated page, the request for the next page: the marker passed
\* is the NextPartNumberMarker the page returned.
ListNextPage ==
    /\ resp.op = "ListObjectParts" /\ resp.err = <<>> /\ resp.list.IsTruncated
    /\ \E descending \in BOOLEAN :
          resp' = ListObjectPartsResult(Net, "b", <<"o">>, PagedUpload,
                                        resp.list.NextPartNumberMarker, resp.list.MaxParts,
                                        descending, FALSE, FALSE, FALSE).resp
    /\ prevPage' = [NoPage EXCEPT !.valid = TRUE, !.list = resp.list]
    /\ UNCHANGED <<streams, nextStream, objects, notMp>>

(***************************************************************************)
(* ListMultipartUploads: the network's iterators over pending uploads and  *)
(* the handler.                                                            *)
(***************************************************************************)
\* Object keys are sequences of characters, ordered as byte strings.
KeyLess(a, b) == SeqLess(Bytes(a), Bytes(b))
HasPrefix(key, prefix) ==
    Len(prefix) <= Len(key) /\ \A i \in 1..Len(prefix) : key[i] = prefix[i]
HasSuffixSlash(prefix) == Len(prefix) > 0 /\ prefix[Len(prefix)] = "/"

Item(key, streamID, isPrefix) == [Key |-> key, StreamID |-> streamID, IsPrefix |-> isPrefix]
ItemLess(a, b) == KeyLess(a.Key, b.Key) \/ (a.Key = b.Key /\ a.StreamID < b.StreamID)

RECURSIVE InOrder(_)
InOrder(S) ==
    IF S = {} THEN <<>>
    ELSE LET m == CHOOSE x \in S : \A y \in S \ {x} : ItemLess(x, y)
         IN  <<m>> \o InOrder(S \ {m})

Pending(net, bucket) ==
    {Item(net.streams[u].key, u, FALSE) :
        u \in {v \in DOMAIN net.streams : net.streams[v].bucket = bucket}}

\* multipart.ListPendingObjectStreams: the pending uploads of one object key.
NetListPendingObjectStreams(net, bucket, key) ==
    InOrder({it \in Pending(net, bucket) : it.Key = key})

\* The key of `it` in a non-recursive listing under `prefix`: what follows
\* the prefix is cut after its first "/", which makes the item a prefix.
Collapse(it, prefix) ==
    LET rest == SubSeq(it.Key, Len(prefix) + 1, Len(it.Key))
        slashes == {i \in 1..Len(rest) : rest[i] = "/"}
    IN  IF slashes = {} THEN it
        ELSE LET p == CHOOSE i \in slashes : \A j \in slashes : i <= j
             IN  Item(SubSeq(it.Key, 1, Len(prefix) + p), 0, TRUE)

\* multipart.ListMultipartUploads: the pending uploads under Prefix after
\* Cursor in key order, grouped into prefixes when not Recursive.
NetListMultipartUploads(net, bucket, prefix, cursor, recursive) ==
    LET under == {it \in Pending(net, bucket) : HasPrefix(it.Key, prefix)}
        shown == IF recursive THEN under ELSE {Collapse(it, prefix) : it \in under}
    IN  InOrder({it \in shown : cursor = <<>> \/ KeyLess(cursor, it.Key)})

\* (mutant: the StreamID is not copied into the entry)
minioMultipartInfoNoID(bucket, object) ==
    [Bucket |-> bucket, Object |-> object.Key, UploadID |-> 0]

\* minioMultipartInfo
minioMultipartInfo(bucket, object) ==
    [Bucket |-> bucket, Object |-> object.Key, UploadID |-> object.StreamID]

Prefixes(items) == SelectSeq(items, LAMBDA it : it.IsPrefix)
Objects(items) == SelectSeq(items, LAMBDA it : ~it.IsPrefix)
\* (mutant: startAfter is never advanced)
LastKeyUnchanged(items, default) == default

LastKey(items, default) == IF items = <<>> THEN default ELSE items[Len(items)].Key

\* checkBucketError (gateway.go): asks the network whether the bucket exists.
checkBucketError(bucket, err) ==
    IF bucket \in Buckets THEN err ELSE <<BucketNotFound(bucket)>>

\* gatewayLayer.ListMultipartUploads; iterFail is the iterator failing.
ListMultipartUploadsResult(net, bucket, prefix, keyMarker, uploadIDMarker, delimiter, maxUploads, openFail, iterFail, closeFail) ==
    LET req == [Request("ListMultipartUploads", bucket, <<>>, uploadIDMarker) EXCEPT
                    !.listArgs = ListArgs(prefix, keyMarker, delimiter, maxUploads)]
    IN
    IF openFail THEN OpenFailed(net, req)
    ELSE IF bucket = "" THEN
        Closing(Outcome(net, [req EXCEPT !.err = <<BucketNameInvalid>>]), closeFail)
    ELSE IF delimiter # "" /\ delimiter # "/" THEN
        Closing(Outcome(net, [req EXCEPT !.err = <<UnsupportedDelimiter(delimiter)>>]),
                closeFail)
    ELSE LET recursive == delimiter = ""
             pendingStreams == prefix # <<>> /\ ~HasSuffixSlash(prefix)
             all == IF iterFail THEN <<>>
                    ELSE IF pendingStreams
                        THEN NetListPendingObjectStreams(net, bucket, prefix)
                        ELSE NetListMultipartUploads(net, bucket, prefix, keyMarker, recursive)
             n == IF maxUploads = 0 \/ Len(all) < maxUploads THEN Len(all)
                  ELSE IF maxUploads > 0 THEN maxUploads ELSE 0
             page == SubSeq(all, 1, n)
             objs == Objects(page)
             more == n < Len(all)
             called == [req EXCEPT !.netCalls =
                          <<NetCall(IF pendingStreams THEN "ListPendingObjectStreams"
                                                      ELSE "ListMultipartUploads",
                                    0, 0, 0, NoMetadata),
                            NetCall("checkBucketError", 0, 0, 0, NoMetadata)>>]
             result == [KeyMarker |-> keyMarker, UploadIDMarker |-> uploadIDMarker,
                        NextKeyMarker |-> IF more THEN LastKey(objs, keyMarker) ELSE <<>>,
                        MaxUploads |-> maxUploads, IsTruncated |-> more,
                        Uploads |-> [i \in 1..Len(objs) |-> minioMultipartInfo(bucket, objs[i])],
                        Prefix |-> prefix, Delimiter |-> delimiter,
                        CommonPrefixes |-> [i \in 1..Len(Prefixes(page)) |->
                                               Prefixes(page)[i].Key]]
         IN  Closing(
               IF iterFail
                 THEN Outcome(net, [called EXCEPT !.err =
                          checkBucketError(bucket,
                              <<convertMultipartError(ErrNetwork, bucket, <<>>, 0)>>)])
                 ELSE Outcome(net, [called EXCEPT !.uploads = result,
                                                  !.err = checkBucketError(bucket, <<>>)]),
               closeFail)

\* The keys of the pending uploads, and what listing requests ask for.
ListKeys == {<<"a">>, <<"d", "/", "a">>, <<"d", "/", "b">>, <<"x">>}
ListBuckets == {"", "b", "x"}
ListPrefixes == {<<>>, <<"a">>, <<"d">>, <<"d", "/">>}
ListDelimiters == {"", "/", "-"}

\* Some uploads are pending in bucket "b".
ListingInit ==
    /\ \E n \in 0..MaxPending :
          /\ streams \in [1..n -> {[bucket |-> "b", key |-> k, parts |-> EmptyMap] :
                                      k \in ListKeys}]
          /\ nextStream = n + 1
    /\ objects = {}
    /\ resp = Request("none", "", <<>>, 0)
    /\ prevPage = NoPage

\* A client's first listing request.
ListMultipartUploads ==
    /\ resp.op = "none"
    /\ \E bucket \in ListBuckets, prefix \in ListPrefixes, keyMarker \in {<<>>} \cup ListKeys,
          delimiter \in ListDelimiters, maxUploads \in 0..MaxUploads, f \in Faults :
          Apply(ListMultipartUploadsResult(Net, bucket, prefix, keyMarker, 0, delimiter,
                                           maxUploads, f.open, f.net, f.close),
                f, NoMetadata)

\* After a truncated page, the request for the next page: keyMarker is the
\* NextKeyMarker the page returned.  The client goes on for as long as the
\* pages bring items it has not seen.
\* The uploads and common prefixes of a listing, as items.
PageItems(r) ==
    {Item(r.uploads.Uploads[i].Object, r.uploads.Uploads[i].UploadID, FALSE) :
        i \in 1..Len(r.uploads.Uploads)}
    \cup {Item(r.uploads.CommonPrefixes[i], 0, TRUE) : i \in 1..Len(r.uploads.CommonPrefixes)}

ListNextMultipartUploads ==
    /\ resp.op = "ListMultipartUploads" /\ resp.err = <<>> /\ resp.uploads.IsTruncated
    /\ PageItems(resp) \cap prevPage.seen = {}
    /\ \E f \in Faults :
          LET out == ListMultipartUploadsResult(Net, resp.bucket, resp.listArgs.prefix,
                                                resp.uploads.NextKeyMarker, 0,
                                                resp.listArgs.delimiter,
                                                resp.listArgs.maxUploads,
                                                f.open, f.net, f.close)
          IN  /\ resp' = [out.resp EXCEPT !.fault = f]
              /\ prevPage' = [NoPage EXCEPT
                                 !.valid = TRUE,
                                 !.seen = prevPage.seen \cup PageItems(resp),
                                 !.start = IF prevPage.valid THEN prevPage.start
                                           ELSE resp.listArgs.keyMarker]
    /\ UNCHANGED <<streams, nextStream, objects, notMp>>

(***************************************************************************)
(* A client that starts uploads, lists the pending uploads, and then uses  *)
(* the uploadIDs it was given.                                             *)
(***************************************************************************)
Handle(bucket, object, uploadID) == [bucket |-> bucket, object |-> object, uploadID |-> uploadID]

\* The uploads the last response tells the client about: the one a
\* NewMultipartUpload returned, those a listing returned, and the one the
\* client has just used.
Obtained(r) ==
    IF r.op = "NewMultipartUpload"
        THEN IF r.err = <<>> THEN {Handle(r.bucket, r.object, r.outID)} ELSE {}
    ELSE IF r.op = "ListMultipartUploads"
        THEN {Handle(r.uploads.Uploads[i].Bucket, r.uploads.Uploads[i].Object,
                     r.uploads.Uploads[i].UploadID) : i \in 1..Len(r.uploads.Uploads)}
    ELSE IF r.op \in {"PutObjectPart", "ListObjectParts", "CompleteMultipartUpload",
                      "AbortMultipartUpload"}
        THEN {Handle(r.bucket, r.object, r.uploadID)}
    ELSE {}

\* The keys of the objects the client uploads.
SessionKeys == {<<"a">>, <<"d", "/", "a">>}

SessionNew ==
    /\ nextStream <= MaxPending
    /\ \E object \in SessionKeys, f \in Faults :
          Apply(NewMultipartUploadResult(Net, "b", object, f.open, f.net, f.close),
                f, NoMetadata)

SessionList ==
    \E bucket \in {"", "b"}, delimiter \in ListDelimiters, f \in Faults :
        Apply(ListMultipartUploadsResult(Net, bucket, <<>>, <<>>, 0, delimiter, 0,
                                         f.open, f.net, f.close), f, NoMetadata)

SessionPut ==
    \E h \in Obtained(resp), size \in DataSizes, f \in Faults :
        Apply(PutObjectPartResult(Net, h.bucket, h.object, h.uploadID, 1, size,
                                  f.open, f.net, f.close), f, NoMetadata)

SessionListParts ==
    \E h \in Obtained(resp), descending \in BOOLEAN, f \in Faults :
        Apply(ListObjectPartsResult(Net, h.bucket, h.object, h.uploadID, 0, 0, descending,
                                    f.open, f.net, f.close), f, NoMetadata)

SessionComplete ==
    \E h \in Obtained(resp), f \in Faults :
        Apply(CompleteMultipartUploadResult(Net, h.bucket, h.object, h.uploadID, <<>>,
                                            NoMetadata, f.open, f.net, f.close),
              f, NoMetadata)

SessionAbort ==
    \E h \in Obtained(resp), f \in Faults :
        Apply(AbortMultipartUploadResult(Net, h.bucket, h.object, h.uploadID,
                                         f.open, f.net, f.close), f, NoMetadata)

MpIdle == MpInit

(***************************************************************************)
(* The store under concurrent callers: each KV method as the steps it      *)
(* takes, from d.mu.Lock() to the deferred d.mu.Unlock().                  *)
(***************************************************************************)
Procs == 1..NumProcs

\* All callers work on one key hash; each Put hands in the caller's own
\* record and each Invalidate the caller's own reason.
ConcHash == Hash(1)
ProcRecord(p) == <<Record(<<"access", p>>)>>
ProcReason(p) == CASE p = 1 -> "reason-A" [] p = 2 -> "reason-B" [] OTHER -> "reason-C"

KVOps == {"Put", "Get", "Delete", "Invalidate", "Ping"}

NoRet == [record |-> <<>>, err |-> NoErr]
NoLin == [entries |-> EmptyMap, invalid |-> EmptyMap, record |-> <<>>, err |-> NoErr]

\* A caller: not in a call (pc "idle"), or in the call `op` with result
\* `ret` once it is set.  The other fields are history.  `lin`: what the call
\* does when run alone on the maps as they were when it got the lock.
\* `race`, for a Put: "open" when the hash had no record as the call started
\* and nothing was stored or deleted since, "beaten" once another caller's
\* Put has stored a record during this call, "off" otherwise.
IdleProc ==
    [pc |-> "idle", op |-> "none", h |-> 0, arg |-> <<>>, reason |-> "", ret |-> NoRet,
     lin |-> NoLin, race |-> "off"]

ConcIdle ==
    /\ mu = 0
    /\ procs = [p \in Procs |-> IdleProc]

ConcInit ==
    /\ entries = EmptyMap
    /\ invalid = EmptyMap
    /\ mu = 0
    /\ procs = [p \in Procs |-> IdleProc]
    /\ K = ConcHash
    /\ last = Call("New", 0, NoErr)
    /\ putRec = <<>>
    /\ firstReason = <<>>
    /\ fresh = "none"
    /\ dbGrant = <<>>
    /\ wasInvalid = FALSE

\* The sequential method, run on the maps e and i.
Sequential(c, e, i) ==
    CASE c.op = "Put" ->
            LET r == KVPutResult(e, i, c.h, c.arg)
            IN  [entries |-> r.entries, invalid |-> r.invalid, record |-> <<>>, err |-> r.err]
      [] c.op = "Get" ->
            LET r == KVGetResult(e, i, c.h)
            IN  [entries |-> e, invalid |-> i, record |-> r.record, err |-> r.err]
      [] c.op = "Delete" ->
            LET r == KVDeleteResult(e, i, c.h)
            IN  [entries |-> r.entries, invalid |-> r.invalid, record |-> <<>>, err |-> r.err]
      [] c.op = "Invalidate" ->
            LET r == KVInvalidateResult(e, i, c.h, c.reason)
            IN  [entries |-> r.entries, invalid |-> r.invalid, record |-> <<>>, err |-> r.err]
      [] c.op = "Ping" ->
            LET r == KVPingResult(e, i)
            IN  [entries |-> r.entries, invalid |-> r.invalid, record |-> <<>>, err |-> r.err]

\* (mutant: Lock does not wait for the mutex to be free)
LockableAlways(m) == TRUE

\* sync.Mutex.Lock blocks until the mutex is unlocked.
Lockable(m) == m = 0

\* The first statement of each method after the lock is taken.
FirstStep(op) ==
    CASE op = "Put" -> "put-check"
      [] op = "Get" -> "get-check"
      [] op = "Delete" -> "delete-entries"
      [] op = "Invalidate" -> "invalidate-check"
      [] op = "Ping" -> "unlock"

Goto(p, pc) == procs' = [procs EXCEPT ![p].pc = pc]
Racing(q) == procs[q].race # "off"
\* (mutant: an error return leaves the method without running the Unlock,
\* as with an Unlock written at the end of the method instead of deferred)
ReturnWithoutUnlock(p, pc, ret) ==
    procs' = [procs EXCEPT ![p].pc = IF ret.err = NoErr THEN pc ELSE "idle", ![p].ret = ret]

\* A return statement: the result is set, the deferred Unlock runs next.
Return(p, pc, ret) == procs' = [procs EXCEPT ![p].pc = pc, ![p].ret = ret]

\* A caller starts a call.
CallKV ==
    \E p \in Procs, op \in KVOps :
        /\ procs[p].pc = "idle"
        /\ procs' = [procs EXCEPT ![p] =
              [IdleProc EXCEPT
                  !.pc = "lock", !.op = op,
                  !.h = IF op = "Ping" THEN 0 ELSE ConcHash,
                  !.arg = IF op = "Put" THEN ProcRecord(p) ELSE <<>>,
                  !.reason = IF op = "Invalidate" THEN ProcReason(p) ELSE "",
                  !.race = IF op = "Put" /\ ConcHash \notin DOMAIN entries
                              THEN "open" ELSE "off"]]
        /\ UNCHANGED <<entries, invalid, mu, notStore>>

\* d.mu.Lock()
Lock ==
    \E p \in Procs :
        /\ procs[p].pc = "lock"
        /\ Lockable(mu)
        /\ mu' = p
        /\ procs' = [procs EXCEPT ![p].pc = FirstStep(procs[p].op),
                                  ![p].lin = Sequential(procs[p], entries, invalid)]
        /\ UNCHANGED <<entries, invalid, notStore>>

\* Put: if _, ok := d.entries[keyHash]; ok { return errs.New(...) }
PutCheck ==
    \E p \in Procs :
        /\ procs[p].pc = "put-check"
        /\ IF procs[p].h \in DOMAIN entries
              THEN Return(p, "unlock", [record |-> <<>>, err |-> ErrExists])
              ELSE Goto(p, "put-write")
        /\ UNCHANGED <<entries, invalid, mu, notStore>>

\* Put: d.entries[keyHash] = record; return nil
PutWrite ==
    \E p \in Procs :
        /\ procs[p].pc = "put-write"
        /\ entries' = MapSet(entries, procs[p].h, procs[p].arg)
        /\ procs' = [q \in Procs |->
              IF q = p THEN [procs[q] EXCEPT !.pc = "unlock", !.ret = [record |-> <<>>, err |-> NoErr]]
              ELSE IF Racing(q) THEN [procs[q] EXCEPT !.race = "beaten"]
              ELSE procs[q]]
        /\ UNCHANGED <<invalid, mu, notStore>>

\* Get: if reason, ok := d.invalid[keyHash]; ok { return nil, Invalid }
GetCheck ==
    \E p \in Procs :
        /\ procs[p].pc = "get-check"
        /\ IF procs[p].h \in DOMAIN invalid
              THEN Return(p, "unlock", [record |-> <<>>, err |-> ErrInvalid(invalid[procs[p].h])])
              ELSE Goto(p, "get-read")
        /\ UNCHANGED <<entries, invalid, mu, notStore>>

\* Get: return d.entries[keyHash], nil
GetRead ==
    \E p \in Procs :
        /\ procs[p].pc = "get-read"
        /\ Return(p, "unlock",
                  [record |-> IF procs[p].h \in DOMAIN entries THEN entries[procs[p].h] ELSE <<>>,
                   err |-> NoErr])
        /\ UNCHANGED <<entries, invalid, mu, notStore>>

\* Delete: delete(d.entries, keyHash)
DeleteEntries ==
    \E p \in Procs :
        /\ procs[p].pc = "delete-entries"
        /\ entries' = MapDelete(entries, procs[p].h)
        /\ procs' = [q \in Procs |->
              IF q = p THEN [procs[q] EXCEPT !.pc = "delete-invalid"]
              ELSE IF Racing(q) THEN [procs[q] EXCEPT !.race = "off"]
              ELSE procs[q]]
        /\ UNCHANGED <<invalid, mu, notStore>>

\* Delete: delete(d.invalid, keyHash); return nil
DeleteInvalid ==
    \E p \in Procs :
        /\ procs[p].pc = "delete-invalid"
        /\ invalid' = MapDelete(invalid, procs[p].h)
        /\ Return(p, "unlock", [record |-> <<>>, err |-> NoErr])
        /\ UNCHANGED <<entries, mu, notStore>>

\* Invalidate: if _, ok := d.invalid[keyHash]; !ok
InvalidateCheck ==
    \E p \in Procs :
        /\ procs[p].pc = "invalidate-check"
        /\ IF procs[p].h \in DOMAIN invalid
              THEN Return(p, "unlock", [record |-> <<>>, err |-> NoErr])
              ELSE Goto(p, "invalidate-write")
        /\ UNCHANGED <<entries, invalid, mu, notStore>>

\* Invalidate: d.invalid[keyHash] = reason; return nil
InvalidateWrite ==
    \E p \in Procs :
        /\ procs[p].pc = "invalidate-write"
        /\ invalid' = MapSet(invalid, procs[p].h, procs[p].reason)
        /\ Return(p, "unlock", [record |-> <<>>, err |-> NoErr])
        /\ UNCHANGED <<entries, mu, notStore>>

\* The deferred d.mu.Unlock(), after which the call returns.  (Ping comes
\* here straight from Lock and returns nil.)
Unlock ==
    \E p \in Procs :
        /\ procs[p].pc = "unlock"
        /\ mu' = 0
        /\ procs' = [procs EXCEPT ![p] = IdleProc]
        /\ UNCHANGED <<entries, invalid, notStore>>

AuthNext ==
    \/ KVPut
    \/ KVGet
    \/ KVDelete
    \/ KVInvalidate
    \/ KVPing
    \/ DatabasePut
    \/ DatabaseGet

AuthIdle ==
    /\ entries = EmptyMap
    /\ invalid = EmptyMap
    /\ K = Hash(1)
    /\ last = Call("New", 0, NoErr)
    /\ putRec = <<>>
    /\ firstReason = <<>>
    /\ fresh = "none"
    /\ dbGrant = <<>>
    /\ wasInvalid = FALSE

\* The credential store and database.
Init == AuthInit /\ ETagIdle /\ MpIdle /\ ConcIdle

Next == AuthNext

Spec == Init /\ [][Next]_vars

\* The aggregate ETag of two parts, in both orders.
ETagNext == ComputeETags

\* The multipart adapter over the storage network.
InitMultipart == MpInit /\ AuthIdle /\ ETagIdle /\ ConcIdle

MultipartNext ==
    \/ NewMultipartUpload
    \/ GetMultipartInfo
    \/ PutObjectPart
    \/ AbortMultipartUpload
    \/ CompleteMultipartUpload
    \/ ListObjectParts

SpecMultipart == InitMultipart /\ [][MultipartNext]_vars

\* Paging through the parts of an upload.
InitPaging == PagingInit /\ AuthIdle /\ ETagIdle /\ ConcIdle

PagingNext ==
    \/ ListPage
    \/ ListNextPage

SpecPaging == InitPaging /\ [][PagingNext]_vars

\* Listing the pending uploads.
InitListing == ListingInit /\ AuthIdle /\ ETagIdle /\ ConcIdle

ListingNext ==
    \/ ListMultipartUploads
    \/ ListNextMultipartUploads

SpecListing == InitListing /\ [][ListingNext]_vars

\* A client using the uploadIDs it was given.
InitSession == MpInit /\ AuthIdle /\ ETagIdle /\ ConcIdle

SessionNext ==
    \/ SessionNew
    \/ SessionList
    \/ SessionPut
    \/ SessionListParts
    \/ SessionComplete
    \/ SessionAbort

SpecSession == InitSession /\ [][SessionNext]_vars

\* The store under concurrent callers.
InitConcurrent == ConcInit /\ ETagIdle /\ MpIdle

ConcurrentNext ==
    \/ CallKV
    \/ Lock
    \/ PutCheck
    \/ PutWrite
    \/ GetCheck
    \/ GetRead
    \/ DeleteEntries
    \/ DeleteInvalid
    \/ InvalidateCheck
    \/ InvalidateWrite
    \/ Unlock

SpecConcurrent == InitConcurrent /\ [][ConcurrentNext]_vars

\* Fair scheduling of the callers.  A caller inside a method keeps running
\* (weak fairness of each statement; callers need never start a call).  A
\* caller blocked in d.mu.Lock() gets the mutex if it is released again and
\* again (strong fairness): sync.Mutex hands the mutex to a waiter that has
\* failed to acquire it for more than 1ms ("starvation mode").
Fairness ==
    /\ \A p \in Procs : SF_vars(Lock /\ mu' = p)
    /\ WF_vars(PutCheck) /\ WF_vars(PutWrite)
    /\ WF_vars(GetCheck) /\ WF_vars(GetRead)
    /\ WF_vars(DeleteEntries) /\ WF_vars(DeleteInvalid)
    /\ WF_vars(InvalidateCheck) /\ WF_vars(InvalidateWrite)
    /\ WF_vars(Unlock)

SpecConcurrentFair == InitConcurrent /\ [][ConcurrentNext]_vars /\ Fairness

InitETag == ETagInit /\ AuthIdle /\ MpIdle /\ ConcIdle

SpecETag == InitETag /\ [][ETagNext]_vars

(***************************************************************************)
(* Claims about the credential store and database (checked under Spec).    *)
(* K is any key hash: Init leaves its choice open.                         *)
(***************************************************************************)
IsPut(c) == c.op \in {"KV.Put", "Database.Put"}

\* C1: at-most-once insertion.  A Put on a hash that holds the record of a
\* successful Put not deleted since fails with already-exists (wrapped by
\* the database, which reports its serialization error first when the
\* grant does not serialize), changes neither map, and the stored record
\* is still the first one.
C1_AtMostOncePut ==
    [][(IsPut(last') /\ putRec # <<>>) =>
          /\ last'.err # NoErr
          /\ last'.op = "KV.Put" => last'.err = ErrExists
          /\ (last'.op = "Database.Put" /\ Serialize(last'.grant).err = NoErr)
                => last'.err = Wrap(ErrExists)
          /\ entries' = entries
          /\ invalid' = invalid
          /\ putRec' = putRec
          /\ K \in DOMAIN entries'
          /\ entries'[K] = putRec[1]]_vars

\* A second Put with another record was refused and the first record stays.
C1_Witness ==
    /\ last.op = "KV.Put"
    /\ last.err = ErrExists
    /\ putRec # <<>>
    /\ putRec # last.arg
    /\ entries[K] = putRec[1]

\* C2: the first invalidation reason wins.  Every Invalidate returns nil;
\* while no Delete intervenes, the recorded reason of a hash is the reason
\* of its first Invalidate, and Get fails with Invalid carrying it.
C2_FirstReasonWins ==
    /\ last.op = "KV.Invalidate" => last.err = NoErr
    /\ firstReason # <<>> =>
          /\ K \in DOMAIN invalid
          /\ invalid[K] = firstReason[1]
    /\ (last.op = "KV.Get" /\ firstReason # <<>>) =>
          /\ last.err = ErrInvalid(firstReason[1])
          /\ last.record = <<>>

\* An Invalidate with another reason has just been ignored.
C2_Witness ==
    /\ last.op = "KV.Invalidate"
    /\ firstReason = <<"reason-A">>
    /\ last.reason = "reason-B"
    /\ invalid[K] = "reason-A"

\* C3: invalidation does not outlive deletion.  Delete returns nil and
\* leaves the hash in neither map; a Get that follows reads an absent
\* record without error (NotFound from the database); a Put that follows
\* succeeds, and the next Get returns the record put, without error.
C3_DeleteClearsInvalidation ==
    /\ last.op = "KV.Delete" =>
          /\ last.err = NoErr
          /\ K \notin DOMAIN entries
          /\ K \notin DOMAIN invalid
    /\ fresh = "deleted" => K \notin DOMAIN entries /\ K \notin DOMAIN invalid
    /\ (last.op = "KV.Get" /\ fresh = "deleted") =>
          last.err = NoErr /\ last.record = <<>>
    /\ (last.op = "Database.Get" /\ fresh = "deleted") =>
          last.err = ErrNotFound(K)
    /\ last.op = "KV.Put" => fresh # "deleted"
    /\ (last.op = "KV.Get" /\ fresh = "reput") =>
          last.err = NoErr /\ last.record = putRec[1]

\* An invalidated hash was deleted, put again, and Get returns the record.
C3_Witness ==
    /\ last.op = "KV.Get"
    /\ fresh = "reput"
    /\ wasInvalid
    /\ last.err = NoErr
    /\ last.record # <<>>
    /\ last.record = putRec[1]

\* C4: Invalid takes precedence on read.  Whenever a hash has a recorded
\* reason, KV.Get fails with Invalid carrying it and returns no record,
\* with or without a live record; Database.Get returns that error wrapped,
\* never reaches ParseAccess and never reports NotFound.
C4_InvalidPrecedence ==
    /\ (last.op = "KV.Get" /\ K \in DOMAIN invalid) =>
          /\ last.err = ErrInvalid(invalid[K])
          /\ last.record = <<>>
    /\ (last.op = "Database.Get" /\ K \in DOMAIN invalid) =>
          /\ last.err = Wrap(ErrInvalid(invalid[K]))
          /\ last.err.class # ErrNotFound(K).class
          /\ ~last.parsed
          /\ last.access = <<>>

\* Database.Get on an invalidated hash that holds a live, parsable record.
C4_Witness ==
    /\ last.op = "Database.Get"
    /\ K \in DOMAIN invalid
    /\ K \in DOMAIN entries
    /\ dbGrant # <<>>
    /\ last.err.class = "Invalid"

\* C5: Put/Get round trip.  After a successful Database.Put(key, G) with no
\* Delete of Hash(key) since and no Invalidate of it since its last Delete,
\* the record stored under Hash(key) carries the serialized G unchanged and
\* Database.Get(key) succeeds with a grant equal to G.
C5_RoundTrip ==
    /\ dbGrant # <<>> =>
          /\ K \in DOMAIN entries
          /\ entries[K] = <<Record(Serialize(dbGrant[1]).val)>>
    /\ (last.op = "Database.Get" /\ dbGrant # <<>> /\ firstReason = <<>>) =>
          /\ last.err = NoErr
          /\ last.access = dbGrant
          /\ last.parsed

\* A Database.Get that returned the grant a Database.Put stored.
C5_Witness ==
    /\ last.op = "Database.Get"
    /\ dbGrant # <<>>
    /\ firstReason = <<>>
    /\ last.access = dbGrant
    /\ last.err = NoErr

(***************************************************************************)
(* Claims about the aggregate ETag (checked under SpecETag).               *)
(***************************************************************************)
\* C6 as stated: every PutObjectPart, ListObjectParts, CompleteMultipartUpload
\* or AbortMultipartUpload naming an uploadID that is not live fails with
\* InvalidUploadID carrying the request's bucket, object and uploadID, and
\* changes no upload state.
UploadOps == {"PutObjectPart", "ListObjectParts", "CompleteMultipartUpload",
              "AbortMultipartUpload"}
Live(U) == U \in DOMAIN streams
NotLiveRequest == resp'.op \in UploadOps /\ ~Live(resp'.uploadID)
RequestInvalidUploadID(r) == InvalidUploadID(r.bucket, r.object, r.uploadID)

C6_AlwaysInvalidUploadID ==
    [][NotLiveRequest =>
          /\ resp'.err = <<RequestInvalidUploadID(resp')>>
          /\ UNCHANGED <<streams, nextStream, objects>>]_vars

\* C6: an uploadID is live from the NewMultipartUpload whose network call
\* created it until the first CompleteMultipartUpload or AbortMultipartUpload
\* whose network call succeeded.  Every PutObjectPart, ListObjectParts,
\* CompleteMultipartUpload or AbortMultipartUpload naming an uploadID that is
\* not live fails and changes no upload state (so a second Abort leaves the
\* state as the first left it).  The error is the project's open error when
\* the project does not open; otherwise it is InvalidUploadID with the
\* request's bucket, object and uploadID when the network answers the call, a
\* storage error when the call itself fails, and in both cases it is combined
\* with the close error when closing the project fails.
C6_NotLiveFails ==
    [][NotLiveRequest =>
          /\ UNCHANGED <<streams, nextStream, objects>>
          /\ resp'.err # <<>>
          /\ resp'.err =
                IF resp'.fault.open THEN <<ErrOpen>>
                ELSE Combine(IF resp'.fault.net
                                 THEN <<convertError(ErrNetwork, resp'.bucket, resp'.object)>>
                                 ELSE <<RequestInvalidUploadID(resp')>>,
                             IF resp'.fault.close THEN <<ErrClose>> ELSE <<>>)]_vars

\* C6 witness: upload 1 was created and aborted (it is gone and nothing was
\* committed), and a second Abort of it has failed with InvalidUploadID.
C6_Witness ==
    /\ nextStream > 1 /\ ~Live(1) /\ objects = {}
    /\ resp.op = "AbortMultipartUpload" /\ resp.uploadID = 1
    /\ resp.err = <<RequestInvalidUploadID(resp)>>

\* C7 as stated: CompleteMultipartUpload on a live upload with part list P
\* issues exactly one completion call whose metadata is the caller's with
\* "s3:etag" set to the aggregate ETag of P, leaves the caller's map alone, and
\* returns object info with the requested bucket and that ETag.
CompleteOnLive == resp'.op = "CompleteMultipartUpload" /\ Live(resp'.uploadID)
AggregateETag(r) == multipartUploadETag(ETagsOf(r.uploadedParts))
CompletionCall(r) ==
    NetCall("CompleteMultipartUpload", r.uploadID, 0, 0,
            MapSet(r.given, "s3:etag", AggregateETag(r)))

C7_AlwaysOneCompletion ==
    [][CompleteOnLive =>
          /\ resp'.netCalls = <<CompletionCall(resp')>>
          /\ resp'.userDefined = resp'.given
          /\ resp'.objInfo.Bucket = resp'.bucket
          /\ resp'.objInfo.ETag = AggregateETag(resp')]_vars

\* C7: CompleteMultipartUpload on a live upload with part list P makes no
\* network call when the project does not open; otherwise it issues exactly
\* one completion call, whose metadata is the caller's user-defined metadata
\* with "s3:etag" set to the aggregate ETag of P (overriding the caller's
\* value).  The caller's own map is never modified.  When that call succeeds
\* the returned object info carries the requested bucket and the same ETag,
\* also when closing the project then fails; when it fails the object info
\* is the zero value.
C7_OneCompletion ==
    [][CompleteOnLive =>
          /\ resp'.userDefined = resp'.given
          /\ resp'.netCalls = IF resp'.fault.open THEN NoCalls ELSE <<CompletionCall(resp')>>
          /\ resp'.objInfo =
                IF resp'.fault.open \/ resp'.fault.net THEN NoObjectInfo
                ELSE minioObjectInfo(resp'.bucket, AggregateETag(resp'), resp'.object)
          /\ (~resp'.fault.open /\ ~resp'.fault.net) =>
                /\ resp'.objInfo.Bucket = resp'.bucket
                /\ resp'.objInfo.ETag = AggregateETag(resp')
                /\ resp'.uploadID \notin DOMAIN streams']_vars

\* C7 witness: a two-part completion whose caller supplied its own "s3:etag"
\* has succeeded and committed the object.
C7_Witness ==
    /\ resp.op = "CompleteMultipartUpload" /\ resp.err = <<>>
    /\ Len(resp.uploadedParts) = 2
    /\ "s3:etag" \in DOMAIN resp.given
    /\ resp.netCalls[1].meta["s3:etag"] = AggregateETag(resp)
    /\ resp.netCalls[1].meta["s3:etag"] # resp.given["s3:etag"]
    /\ resp.objInfo.ETag = AggregateETag(resp)
    /\ objects # {}

\* C8 as stated: when the upload holds n parts and ListObjectParts is called
\* from the start with 0 < maxParts < n, the page has exactly maxParts parts in
\* ascending part-number order and is truncated; and the page got by passing
\* the returned NextPartNumberMarker holds only parts with numbers greater
\* than every part of the page before it.
PartNumbersOf(list) == {list.Parts[i].PartNumber : i \in 1..Len(list.Parts)}
IsAscending(parts) ==
    \A i \in 1..Len(parts), j \in 1..Len(parts) :
        i < j => parts[i].PartNumber < parts[j].PartNumber
Listed == resp.op = "ListObjectParts" /\ resp.err = <<>>

C8_PagingAdvances ==
    Listed =>
       /\ (/\ resp.list.PartNumberMarker = 0
           /\ resp.list.MaxParts > 0
           /\ resp.list.MaxParts < Cardinality(DOMAIN streams[resp.uploadID].parts))
          => /\ Len(resp.list.Parts) = resp.list.MaxParts
             /\ IsAscending(resp.list.Parts)
             /\ resp.list.IsTruncated
       /\ prevPage.valid =>
             \A p \in PartNumbersOf(resp.list), q \in PartNumbersOf(prevPage.list) : p > q

\* C8 witness: of 5 parts the first page of 2 was truncated, and the request
\* with the marker it returned has been answered.
C8_Witness ==
    /\ Listed /\ prevPage.valid
    /\ Cardinality(DOMAIN streams[resp.uploadID].parts) = 5
    /\ prevPage.list.PartNumberMarker = 0 /\ prevPage.list.MaxParts = 2
    /\ PartNumbersOf(prevPage.list) = {1, 2}
    /\ resp.list.PartNumberMarker = prevPage.list.NextPartNumberMarker
    /\ PartNumbersOf(resp.list) = {1, 2}

\* C9 as stated: a ListMultipartUploads request with an empty bucket fails
\* with BucketNameInvalid, and one with a delimiter other than "" or "/"
\* fails with UnsupportedDelimiter carrying that delimiter, and in both cases
\* no project is opened, no iterator is created and no bucket-existence check
\* is made.
Rejected ==
    /\ resp.op = "ListMultipartUploads"
    /\ (resp.bucket = "" \/ resp.listArgs.delimiter \notin {"", "/"})

C9_ValidationBeforeBackend ==
    Rejected =>
       /\ resp.err = IF resp.bucket = "" THEN <<BucketNameInvalid>>
                     ELSE <<UnsupportedDelimiter(resp.listArgs.delimiter)>>
       /\ ~resp.opened
       /\ resp.netCalls = NoCalls

\* C9 witness: a request with delimiter "-" was rejected with
\* UnsupportedDelimiter after a project had been opened (and closed) for it.
C9_Witness ==
    /\ resp.op = "ListMultipartUploads"
    /\ resp.bucket = "b" /\ resp.listArgs.delimiter = "-"
    /\ resp.err = <<UnsupportedDelimiter("-")>>
    /\ resp.opened /\ resp.closed = 1
    /\ resp.netCalls = NoCalls

PendingHandles == {Handle(streams[u].bucket, streams[u].key, u) : u \in DOMAIN streams}
UsedHandle(r) == Handle(r.bucket, r.object, r.uploadID)
ActsOnUpload(U) ==
    CASE resp'.op = "PutObjectPart" ->
            streams' = [streams EXCEPT ![U].parts = MapSet(@, resp'.part.PartNumber - 1,
                                                            resp'.part.Size)]
      [] resp'.op = "ListObjectParts" ->
            /\ streams' = streams
            /\ PartNumbersOf(resp'.list) = {i + 1 : i \in DOMAIN streams[U].parts}
      [] resp'.op \in {"CompleteMultipartUpload", "AbortMultipartUpload"} ->
            streams' = MapDelete(streams, U)

C11_UploadIDPassThrough ==
    [][/\ (resp'.op = "NewMultipartUpload" /\ ~resp'.fault.open /\ ~resp'.fault.net) =>
             /\ resp'.outID \notin DOMAIN streams
             /\ DOMAIN streams' = DOMAIN streams \cup {resp'.outID}
             /\ streams'[resp'.outID].bucket = resp'.bucket
             /\ streams'[resp'.outID].key = resp'.object
       /\ (resp'.op = "ListMultipartUploads" /\ resp'.err = <<>>) =>
             /\ Obtained(resp') \subseteq PendingHandles
             /\ Len(resp'.uploads.Uploads) = Cardinality(Obtained(resp'))
             /\ resp'.listArgs.delimiter = "" => Obtained(resp') = PendingHandles
       /\ (resp'.op \in UploadOps /\ resp'.opened) =>
             /\ Len(resp'.netCalls) = 1
             /\ resp'.netCalls[1].uploadID = resp'.uploadID
       /\ (/\ resp'.op \in UploadOps
           /\ resp'.fault = NoFault
           /\ UsedHandle(resp') \in Obtained(resp)
           /\ Live(resp'.uploadID)) =>
             /\ UsedHandle(resp') \in PendingHandles
             /\ resp'.err = <<>>
             /\ ActsOnUpload(resp'.uploadID)]_vars

\* C11 witness: of two uploads the client started, the second has been
\* aborted through the uploadID it obtained, and the first is still pending.
C11_Witness ==
    /\ resp.op = "AbortMultipartUpload" /\ resp.err = <<>>
    /\ resp.uploadID = 2 /\ resp.netCalls[1].uploadID = 2
    /\ nextStream = 3 /\ DOMAIN streams = {1}

\* C12: PutObjectPart with part number n >= 1 asks the network to store the
\* part at index n - 1 and, when the network stores it, returns PartNumber n;
\* ListObjectParts queries the network with cursor partNumberMarker - 1 and
\* reports the network's part of index i as part number i + 1: the parts it
\* lists are stored parts numbered above the marker (all of them unless the
\* page is truncated), so a part uploaded as n is listed as n and every part
\* number shown is at least 1.
Answered(r) == ~r.fault.open /\ ~r.fault.net
StoredNumbers(U) == {i + 1 : i \in DOMAIN streams[U].parts}

C12_PartNumberTranslation ==
    [][/\ (resp'.op \in {"PutObjectPart", "ListObjectParts"} /\ resp'.opened) =>
             /\ Len(resp'.netCalls) = 1
             /\ resp'.netCalls[1].index = resp'.number - 1
       /\ (resp'.op = "PutObjectPart" /\ Answered(resp') /\ Live(resp'.uploadID)) =>
             /\ resp'.part.PartNumber = resp'.number
             /\ resp'.number >= 1
             /\ DOMAIN streams'[resp'.uploadID].parts =
                   DOMAIN streams[resp'.uploadID].parts \cup {resp'.number - 1}
             /\ resp'.number \in {i + 1 : i \in DOMAIN streams'[resp'.uploadID].parts}
       /\ (resp'.op = "ListObjectParts" /\ Answered(resp') /\ Live(resp'.uploadID)) =>
             /\ PartNumbersOf(resp'.list) \subseteq
                   {n \in StoredNumbers(resp'.uploadID) : n > resp'.number}
             /\ ~resp'.list.IsTruncated =>
                   PartNumbersOf(resp'.list) =
                      {n \in StoredNumbers(resp'.uploadID) : n > resp'.number}
             /\ \A n \in PartNumbersOf(resp'.list) : n >= 1]_vars

\* C12 witness: parts were uploaded as numbers 1 and 2, and a listing after
\* marker 1 shows the part stored at index 1 as number 2.
C12_Witness ==
    /\ resp.op = "ListObjectParts" /\ resp.err = <<>> /\ resp.number = 1
    /\ Live(resp.uploadID)
    /\ DOMAIN streams[resp.uploadID].parts = {0, 1}
    /\ resp.netCalls[1].index = 0
    /\ PartNumbersOf(resp.list) = {2}

\* C13: a ListMultipartUploads request that is not rejected and whose
\* iterator does not fail takes the first maxUploads items of the iterator
\* (all of them when maxUploads = 0), so with maxUploads > 0 the uploads and
\* common prefixes together are at most maxUploads; IsTruncated is true
\* exactly when the iterator has a further item, which is in neither list;
\* and NextKeyMarker is set only when IsTruncated, to the key of the last
\* upload of the page, or to the incoming keyMarker when the page has none.
ListedUploads ==
    /\ resp.op = "ListMultipartUploads" /\ ~Rejected /\ Answered(resp)
IteratorItems ==
    IF resp.listArgs.prefix # <<>> /\ ~HasSuffixSlash(resp.listArgs.prefix)
        THEN NetListPendingObjectStreams(Net, resp.bucket, resp.listArgs.prefix)
        ELSE NetListMultipartUploads(Net, resp.bucket, resp.listArgs.prefix,
                                     resp.listArgs.keyMarker, resp.listArgs.delimiter = "")
PageSize == Len(resp.uploads.Uploads) + Len(resp.uploads.CommonPrefixes)
InPage(it) ==
    IF it.IsPrefix
        THEN \E i \in 1..Len(resp.uploads.CommonPrefixes) : resp.uploads.CommonPrefixes[i] = it.Key
        ELSE \E i \in 1..Len(resp.uploads.Uploads) :
                resp.uploads.Uploads[i] = minioMultipartInfo(resp.bucket, it)

C13_PageBoundAndTruncation ==
    ListedUploads =>
       LET all == IteratorItems
           max == resp.listArgs.maxUploads
           ups == resp.uploads.Uploads
       IN  /\ max > 0 => PageSize <= max
           /\ PageSize = IF max = 0 \/ Len(all) < max THEN Len(all) ELSE max
           /\ \A i \in 1..Len(all) : InPage(all[i]) <=> i <= PageSize
           /\ resp.uploads.IsTruncated <=> PageSize < Len(all)
           /\ resp.uploads.IsTruncated => ~InPage(all[PageSize + 1])
           /\ ~resp.uploads.IsTruncated => resp.uploads.NextKeyMarker = <<>>
           /\ resp.uploads.IsTruncated =>
                 resp.uploads.NextKeyMarker =
                    IF ups = <<>> THEN resp.listArgs.keyMarker ELSE ups[Len(ups)].Object

\* C13 witness: with maxUploads = 1 and delimiter "/" the page holds the
\* upload of key a, the prefix d/ is left for the next page, and
\* NextKeyMarker is a.
C13_Witness ==
    /\ ListedUploads /\ resp.err = <<>>
    /\ resp.listArgs.maxUploads = 1 /\ resp.listArgs.delimiter = "/"
    /\ Len(resp.uploads.Uploads) = 1 /\ resp.uploads.CommonPrefixes = <<>>
    /\ resp.uploads.IsTruncated
    /\ Len(IteratorItems) = 2 /\ IteratorItems[2].IsPrefix
    /\ resp.uploads.NextKeyMarker = <<"a">>

\* C14 as stated: a client that pages through the pending uploads from the
\* start with maxUploads > 0, each time passing the NextKeyMarker it got, is
\* never handed an item a second time (so that it makes progress and comes to
\* an end), and when it reaches the page that is not truncated it has been
\* handed every pending upload and every common prefix of the listing.
PagedFromStart ==
    /\ ListedUploads /\ resp.err = <<>>
    /\ resp.listArgs.maxUploads > 0
    /\ (IF prevPage.valid THEN prevPage.start ELSE resp.listArgs.keyMarker) = <<>>
Range(q) == {q[i] : i \in 1..Len(q)}
WholeListing ==
    IF resp.listArgs.prefix # <<>> /\ ~HasSuffixSlash(resp.listArgs.prefix)
        THEN Range(NetListPendingObjectStreams(Net, resp.bucket, resp.listArgs.prefix))
        ELSE Range(NetListMultipartUploads(Net, resp.bucket, resp.listArgs.prefix, <<>>,
                                           resp.listArgs.delimiter = ""))

C14_PagingComplete ==
    PagedFromStart =>
       /\ PageItems(resp) \cap prevPage.seen = {}
       /\ ~resp.uploads.IsTruncated => prevPage.seen \cup PageItems(resp) = WholeListing

\* C14 witness: with delimiter "/" and maxUploads = 1 the first page held
\* only the common prefix d/ and was truncated, and the page requested with
\* its NextKeyMarker holds that same prefix again.
C14_Witness ==
    /\ PagedFromStart /\ prevPage.valid
    /\ resp.listArgs.delimiter = "/" /\ resp.listArgs.maxUploads = 1
    /\ prevPage.seen = {Item(<<"d", "/">>, 0, TRUE)}
    /\ PageItems(resp) = prevPage.seen
    /\ resp.uploads.IsTruncated
    /\ resp.uploads.NextKeyMarker = <<>>

\* C15: every adapter operation that opens a project has closed it exactly
\* once when it returns, whatever the exit path (normal return, network or
\* iterator error, validation error), so no project stays open between
\* requests; an operation whose open fails closes nothing.
AdapterOps ==
    {"NewMultipartUpload", "PutObjectPart", "AbortMultipartUpload",
     "CompleteMultipartUpload", "ListObjectParts", "ListMultipartUploads"}
OpenProjects == (IF resp.opened THEN 1 ELSE 0) - resp.closed

C15_ProjectClosedOnce ==
    resp.op \in AdapterOps =>
       /\ resp.opened <=> ~resp.fault.open
       /\ resp.opened => resp.closed = 1
       /\ ~resp.opened => resp.closed = 0
       /\ OpenProjects = 0

\* C15 witness: a listing whose iterator failed after the project was
\* opened has closed the project once.
C15_Witness ==
    /\ resp.op = "ListMultipartUploads" /\ ~Rejected
    /\ resp.fault.net /\ resp.err # <<>>
    /\ resp.opened /\ resp.closed = 1

\* C16: an adapter operation returns a nil error exactly when its primary
\* network operation and the closing of its project both succeeded; when the
\* primary operation fails and Close fails too the error carries both, the
\* primary error first; and when the primary operation succeeds but Close
\* fails the error is the Close error alone, the effect on the network
\* having happened.  (The primary operation of ListMultipartUploads is the
\* iteration with its bucket check; it is not attempted for a rejected
\* request, nor is any when the project does not open.)
Attempted(r) ==
    /\ ~r.fault.open
    /\ r.op = "ListMultipartUploads" =>
          (r.bucket # "" /\ r.listArgs.delimiter \in {"", "/"})
PrimarySucceeds(r) ==
    /\ Attempted(r) /\ ~r.fault.net
    /\ r.op \in UploadOps => Live(r.uploadID)
    /\ r.op = "ListMultipartUploads" => r.bucket \in Buckets
EffectHappened(r) ==
    CASE r.op = "NewMultipartUpload" -> r.outID \in DOMAIN streams' \ DOMAIN streams
      [] r.op = "PutObjectPart" -> (r.number - 1) \in DOMAIN streams'[r.uploadID].parts
      [] r.op \in {"CompleteMultipartUpload", "AbortMultipartUpload"} ->
            r.uploadID \notin DOMAIN streams'
      [] OTHER -> TRUE

C16_NeitherFailureDropped ==
    [][resp'.op \in AdapterOps =>
          /\ resp'.err = <<>> <=> (PrimarySucceeds(resp') /\ ~resp'.fault.close)
          /\ (Attempted(resp') /\ ~PrimarySucceeds(resp') /\ resp'.fault.close) =>
                /\ Len(resp'.err) = 2
                /\ resp'.err[1] \notin {ErrClose, ErrOpen}
                /\ resp'.err[2] = ErrClose
          /\ (Attempted(resp') /\ ~PrimarySucceeds(resp') /\ ~resp'.fault.close) =>
                /\ Len(resp'.err) = 1
                /\ resp'.err[1] \notin {ErrClose, ErrOpen}
          /\ (PrimarySucceeds(resp') /\ resp'.fault.close) =>
                /\ resp'.err = <<ErrClose>>
                /\ EffectHappened(resp')]_vars

\* C16 witness: an Abort of an upload that is no longer live failed with
\* InvalidUploadID and its Close failed too; the error carries both.
C16_Witness ==
    /\ resp.op = "AbortMultipartUpload"
    /\ resp.fault.close
    /\ resp.err = <<RequestInvalidUploadID(resp), ErrClose>>


(***************************************************************************)
(* C17                                                                     *)
(***************************************************************************)
\* A caller is inside its critical section from d.mu.Lock() returning to
\* the deferred d.mu.Unlock().
InCritical(p) == procs[p].pc \notin {"idle", "lock"}

\* The call of p has run to its return statement.
Done(p) == procs[p].pc = "unlock"

\* C17: with Put, Get, Delete, Invalidate and Ping calls running
\* concurrently, at most one caller is inside its critical section and it
\* holds the mutex; a call that has run to its return has the result, and
\* leaves both maps in the state, of the same call run alone on the maps as
\* they were when it took the lock, so the calls are as if run one after
\* another in the order they took the lock; a Put that succeeds leaves its
\* own record stored, and of the Puts in progress on a hash that was absent
\* when they started (and that no Delete removed meanwhile) a Put succeeds
\* exactly when no other caller's Put stored a record during it; while a
\* Delete has removed the record but not yet the reason, no other caller is
\* inside its critical section.
C17_Linearizable ==
    \A p \in Procs :
        /\ InCritical(p) => mu = p
        /\ \A q \in Procs : InCritical(p) /\ InCritical(q) => p = q
        /\ Done(p) =>
              /\ procs[p].ret = [record |-> procs[p].lin.record, err |-> procs[p].lin.err]
              /\ entries = procs[p].lin.entries
              /\ invalid = procs[p].lin.invalid
        /\ Done(p) /\ procs[p].op = "Put" /\ procs[p].ret.err = NoErr =>
              /\ procs[p].h \in DOMAIN entries
              /\ entries[procs[p].h] = procs[p].arg
        /\ Done(p) /\ procs[p].op = "Put" /\ procs[p].race # "off" =>
              (procs[p].ret.err = NoErr <=> procs[p].race = "open")
        /\ procs[p].pc = "delete-invalid" =>
              \A q \in Procs \ {p} : ~InCritical(q)

\* Two Puts ran concurrently on the absent hash: the one that lost has run
\* to its already-exists return and the other caller's record is stored.
C17_Witness ==
    \E p, q \in Procs :
        /\ p # q
        /\ Done(p) /\ procs[p].op = "Put"
        /\ procs[p].race = "beaten"
        /\ procs[p].ret.err = ErrExists
        /\ ConcHash \in DOMAIN entries
        /\ entries[ConcHash] = ProcRecord(q)


(***************************************************************************)
(* C18                                                                     *)
(***************************************************************************)
\* The mutex is held only by a caller that is inside a method, past Lock.
HeldInside == mu # 0 => InCritical(mu)

\* A caller that returns from a method leaves the mutex unlocked.
ReturnReleases ==
    \A p \in Procs :
        procs[p].pc # "idle" /\ procs'[p].pc = "idle" => mu = p /\ mu' = 0

\* No step of a Ping changes either map, and a Ping returns nil.
PingIsNoOp ==
    \A p \in Procs :
        procs[p].pc # "idle" /\ procs[p].op = "Ping" /\ procs'[p] # procs[p] =>
            /\ entries' = entries
            /\ invalid' = invalid
            /\ procs'[p].ret.err = NoErr

\* C18: every method releases the mutex on every return path (a caller that
\* has returned never holds it, so a waiting caller is never blocked by one),
\* Put's already-exists return and Get's Invalid return included; under fair
\* scheduling every started Put, Get, Delete, Invalidate or Ping returns;
\* Ping returns nil and changes no state.
C18_ReleasesAndReturns ==
    /\ []HeldInside
    /\ [][ReturnReleases /\ PingIsNoOp]_vars
    /\ \A p \in Procs : (procs[p].pc # "idle") ~> (procs[p].pc = "idle")

\* A Get is at its Invalid return, about to release the mutex, while a
\* Put waits for it.
C18_Witness ==
    \E p, q \in Procs :
        /\ Done(p) /\ procs[p].op = "Get" /\ procs[p].ret.err.class = "Invalid"
        /\ procs[q].pc = "lock" /\ procs[q].op = "Put"


(***************************************************************************)
(* C19                                                                     *)
(***************************************************************************)
\* The step is a call of the named KV method on the watched hash K.
IsCall(op) == last'.op = op /\ last'.h = K

PutIgnoresInvalid ==
    IsCall("KV.Put") =>
        /\ last'.err = NoErr <=> K \notin DOMAIN entries
        /\ last'.err # NoErr => last'.err = ErrExists /\ entries' = entries
        /\ last'.err = NoErr =>
              entries' = [x \in DOMAIN entries \cup {K} |->
                             IF x = K THEN last'.arg[1] ELSE entries[x]]
        /\ invalid' = invalid

GetFailsWhileInvalid ==
    IsCall("KV.Get") /\ K \in DOMAIN invalid =>
        /\ last'.err = ErrInvalid(invalid[K])
        /\ last'.record = <<>>

ReasonStaysUntilDelete ==
    K \in DOMAIN invalid /\ ~IsCall("KV.Delete") =>
        K \in DOMAIN invalid' /\ invalid'[K] = invalid[K]

\* C19: Put(K, R) succeeds exactly when K has no entry in the live-record
\* map, whether or not K has an invalidation reason, and never changes the
\* invalidation map: a Put on an invalidated hash with no live record stores
\* R and leaves the reason; Get(K) fails with Invalid, carrying that reason,
\* as long as K has a reason, and only Delete(K) takes the reason away.
C19_PutIgnoresInvalidation ==
    [][PutIgnoresInvalid /\ GetFailsWhileInvalid /\ ReasonStaysUntilDelete]_vars

\* A Put on the invalidated hash K, which had no live record, has stored
\* its record, and K still has its reason.
C19_Witness ==
    /\ last.op = "KV.Put" /\ last.h = K /\ last.err = NoErr
    /\ firstReason # <<>>
    /\ K \in DOMAIN invalid /\ invalid[K] = firstReason[1]
    /\ K \in DOMAIN entries /\ entries[K] = last.arg[1]

(***************************************************************************)
(* C20                                                                     *)
(***************************************************************************)
InvalidateKeepsRecords ==
    IsCall("KV.Invalidate") =>
        /\ entries' = entries
        /\ \A x \in KeyHashes \ {K} :
              /\ x \in DOMAIN invalid' <=> x \in DOMAIN invalid
              /\ x \in DOMAIN invalid => invalid'[x] = invalid[x]
        /\ K \in DOMAIN invalid'

\* The Put that follows an Invalidate of K, with K's record stored.
PutAfterInvalidateBlocked ==
    /\ last.op = "KV.Invalidate" /\ last.h = K
    /\ K \in DOMAIN entries
    /\ IsCall("KV.Put")
    => last'.err = ErrExists /\ entries' = entries

OnlyDeleteRemoves ==
    K \in DOMAIN entries /\ K \notin DOMAIN entries' => IsCall("KV.Delete")

\* C20: Invalidate(K, reason) leaves the live-record map unchanged for every
\* hash and the reason of every hash other than K unchanged; the record
\* stored for K stays and makes a following Put(K, ..) fail with
\* already-exists; K's record is removed by Delete(K) only.
C20_InvalidateIsSoft ==
    [][InvalidateKeepsRecords /\ PutAfterInvalidateBlocked /\ OnlyDeleteRemoves]_vars

\* K, which has a live record, has just been invalidated, while another
\* hash is invalid with another reason.
C20_Witness ==
    /\ last.op = "KV.Invalidate" /\ last.h = K
    /\ K \in DOMAIN entries /\ K \in DOMAIN invalid
    /\ invalid[K] = last.reason
    /\ \E x \in DOMAIN invalid \ {K} : invalid[x] # invalid[K]

====
